---- MODULE Spec2Model ----
(***************************************************************************)
(* IoTrade: subscription-gated real-time data distribution.                *)
(*                                                                         *)
(* The model covers the WebSocket hub of backend/src/index.ts (connection  *)
(* registry, subscribe / unsubscribe handlers, broadcastDataUpdate), the   *)
(* entitlement oracle of backend/src/services/sui.service.ts (checkAccess, *)
(* getSubscription, getDataFeed), the Seal decryption pipeline             *)
(* (SealService.decryptData), the ledger policy of                         *)
(* iot_marketplace/sources/seal_access.move and the REST data endpoint     *)
(* (routes/data.ts).                                                       *)
(*                                                                         *)
(* Handlers are asynchronous: each one is cut at its awaits, one action    *)
(* per segment that runs between two awaits on the single event loop.      *)
(***************************************************************************)
EXTENDS Integers, Sequences, FiniteSets, TLC

(***************************************************************************)
(* Bounds and program constants                                            *)
(***************************************************************************)

\* highest ledger epoch the model lets the chain reach
MaxEpoch == 1

\* highest reading number (a reading r is stored in blob r)
MaxReading == 2

\* most handlers and calls waiting at an await at one time
MaxInFlight == 1

\* most reads that fail while one request is handled
MaxFailures == 1

\* last value of the clock
MaxTime == 3

\* most subscribe requests of one race
MaxRacing == 2

\* most updates the sensor server receives
MaxSensorUpdates == 102

\* most sockets the hook opens
MaxSockets == 3

\* most getDataFeed and getSubscription calls followed
MaxReads == 2

\* const maxRetries = parseInt(process.env.SUI_OBJECT_RETRY || '2')
maxRetries == 2

\* undefined / empty string, for identifiers
None == "none"

\* null, for objects
Null == [null |-> TRUE]

Feeds == {"F1", "F2"}
SubIds == {"S1", "S2"}
Addresses == {"A", "B"}
Conns == {"c1", "c2"}

(***************************************************************************)
(* The ledger: feeds and subscriptions are objects the backend only reads. *)
(***************************************************************************)

VARIABLES
  epoch,          \* current Sui epoch (getLatestSuiSystemState().epoch)
  feeds,          \* feedId -> DataFeed fields read by getDataFeed
  subscriptions   \* subscriptionId -> Subscription fields, or Null when
                  \* no object with that id has content

ledgerVars == <<epoch, feeds, subscriptions>>

DataFeedType == [isPremium : BOOLEAN, isActive : BOOLEAN, walrusBlobId : 0..MaxReading]

SubscriptionType ==
  [consumer : Addresses, feedId : Feeds, isActive : BOOLEAN, expiryEpoch : 0..MaxEpoch]

(***************************************************************************)
(* seal_access.move                                                        *)
(***************************************************************************)

\* can_decrypt(feed, subscription, consumer, current_epoch); feedId is
\* sui::object::id(feed)
can_decrypt(feedId, feed, subscription, consumer, current_epoch) ==
  IF ~feed.isActive \/ ~feed.isPremium THEN FALSE
  ELSE IF subscription.consumer # consumer THEN FALSE
  ELSE IF ~subscription.isActive \/ current_epoch > subscription.expiryEpoch THEN FALSE
  ELSE IF subscription.feedId # feedId THEN FALSE
  ELSE TRUE

(***************************************************************************)
(* sui.service.ts: the entitlement oracle                                  *)
(***************************************************************************)

\* Outcome of one retried object read: `fails` is the number of consecutive
\* attempts at which client.getObject throws before one answers.  The loop
\* makes maxRetries + 1 attempts and returns null when all of them throw.
ReadSurvives(fails) == fails <= maxRetries

\* getSubscription(subscriptionId): the Subscription, or Null
getSubscription(subscriptionId, fails) ==
  IF ~ReadSurvives(fails) THEN Null
  ELSE IF subscriptionId \notin SubIds THEN Null
  ELSE subscriptions[subscriptionId]

\* getDataFeed(feedId): the DataFeed, or Null
getDataFeed(feedId, fails) ==
  IF ~ReadSurvives(fails) THEN Null
  ELSE IF feedId \notin Feeds THEN Null
  ELSE feeds[feedId]

\* checkAccess that refuses in the expiry epoch itself
checkAccessStrictExpiry(subscriptionId, consumer, fails, epochThrows) ==
  LET subscription == getSubscription(subscriptionId, fails) IN
  IF subscription = Null THEN FALSE
  ELSE IF subscription.consumer # consumer \/ ~subscription.isActive THEN FALSE
  ELSE IF epochThrows THEN FALSE
  ELSE epoch < subscription.expiryEpoch

\* checkAccess with a catch that answers true
checkAccessFailOpen(subscriptionId, consumer, fails, epochThrows) ==
  LET subscription == getSubscription(subscriptionId, fails) IN
  IF subscription = Null THEN FALSE
  ELSE IF subscription.consumer # consumer \/ ~subscription.isActive THEN FALSE
  ELSE IF epochThrows THEN TRUE
  ELSE epoch <= subscription.expiryEpoch

\* checkAccess(subscriptionId, consumer); epochThrows: getLatestSuiSystemState
\* throws, which the catch turns into false
checkAccess(subscriptionId, consumer, fails, epochThrows) ==
  LET subscription == getSubscription(subscriptionId, fails) IN
  IF subscription = Null THEN FALSE
  ELSE IF subscription.consumer # consumer \/ ~subscription.isActive THEN FALSE
  ELSE IF epochThrows THEN FALSE
  ELSE epoch <= subscription.expiryEpoch

(***************************************************************************)
(* API keys and the credential store (services/api-key.service.ts)          *)
(***************************************************************************)

\* The key strings a client may present.  "K1" is a subscriber key issued
\* for subscription S1 of consumer A, "K2" a provider key, "K0" is unknown.
ApiKeyStrings == {"K0", "K1", "K2"}

ApiKeyRows ==
  [ K1 |-> [id |-> "K1", type |-> "SUBSCRIBER", subscriptionId |-> "S1",
            consumerAddress |-> "A"],
    K2 |-> [id |-> "K2", type |-> "PROVIDER", subscriptionId |-> None,
            consumerAddress |-> None] ]

\* validateApiKey(apiKey): {valid, apiKey}
validateApiKey(apiKey) ==
  IF apiKey \in DOMAIN ApiKeyRows
    THEN [valid |-> TRUE, apiKey |-> ApiKeyRows[apiKey]]
    ELSE [valid |-> FALSE, apiKey |-> Null]

\* Exported session keys a client may hand over: the address that signed it
\* and the time it was created.  Time is counted in units of 30 minutes.
SessionKeyIds == {"KA", "KB"}

SessionKeyAddress == [KA |-> "A", KB |-> "B"]

SessionKeyCreatedAt == [KA |-> 0, KB |-> 0]

\* const TTL_MIN = 60 (two units of 30 minutes)
TTL_MIN == 2

\* expiresAt = Date.now() + 30 * 60 * 1000 (one unit of 30 minutes)
StoreTtl == 1

VARIABLES
  now,            \* Date.now(), in units of 30 minutes
  sealConfigured, \* sealService.isConfigured()
  sessionStore    \* apiKeyId -> stored session key entry, or Null

envVars == <<now, sealConfigured, sessionStore>>

NoEntry == Null

\* SessionKey.isExpired()
SessionKeyExpired(sessionKey) ==
  now > SessionKeyCreatedAt[sessionKey] + TTL_MIN

\* An entry is live until its expiresAt
EntryLive(entry) == entry # NoEntry /\ now <= entry.expiresAt

\* getStoredSessionKey(apiKeyId): the stored key, or None; an expired entry
\* reads as absent
getStoredSessionKey(apiKeyId) ==
  IF apiKeyId \in DOMAIN sessionStore /\ EntryLive(sessionStore[apiKeyId])
    THEN sessionStore[apiKeyId].sessionKey
    ELSE None

\* ... and is removed by the read
StoreAfterGet(apiKeyId) ==
  IF apiKeyId \in DOMAIN sessionStore /\ ~EntryLive(sessionStore[apiKeyId])
    THEN [sessionStore EXCEPT ![apiKeyId] = NoEntry]
    ELSE sessionStore

\* storeSessionKey(apiKeyId, sessionKey, expiresAt): nothing is written
\* over a live entry
storeSessionKey(store, apiKeyId, sessionKey, expiresAt) ==
  IF EntryLive(store[apiKeyId]) THEN store
  ELSE [store EXCEPT ![apiKeyId] = [sessionKey |-> sessionKey, expiresAt |-> expiresAt]]

\* clearSessionKey(apiKeyId)
clearSessionKey(store, apiKeyId) ==
  [store EXCEPT ![apiKeyId] = NoEntry]

(***************************************************************************)
(* index.ts: the subscribe handler's access decision (lines 124-165)       *)
(***************************************************************************)

\* What the network does to the reads of one subscribe request: whether the
\* database throws, and for each ledger read how many attempts throw.
\*   keySub   getSubscription of the API key's subscription (line 137)
\*   keyChk   getSubscription inside checkAccess (line 139), keyEpoch its
\*            epoch read
\*   legChk, legEpoch   the same for the fallback checkAccess (line 162)
FailCounts == {0, maxRetries + 1}

Failures(net) ==
  (IF net.dbThrows THEN 1 ELSE 0) + (IF net.keySub # 0 THEN 1 ELSE 0)
  + (IF net.keyChk # 0 THEN 1 ELSE 0) + (IF net.keyEpoch THEN 1 ELSE 0)
  + (IF net.legChk # 0 THEN 1 ELSE 0) + (IF net.legEpoch THEN 1 ELSE 0)

NetOutcomes ==
  { net \in [dbThrows : BOOLEAN, keySub : FailCounts, keyChk : FailCounts,
              keyEpoch : BOOLEAN, legChk : FailCounts, legEpoch : BOOLEAN] :
      Failures(net) <= MaxFailures }

NetAllUp ==
  [dbThrows |-> FALSE, keySub |-> 0, keyChk |-> 0, keyEpoch |-> FALSE,
   legChk |-> 0, legEpoch |-> FALSE]

\* The locals of the handler when no API key was used
NoKeyBranch ==
  [tried |-> FALSE, matched |-> FALSE, hasAccess |-> FALSE, apiKeyId |-> None,
   consumerAddress |-> None, resolvedSubscriptionId |-> None]

\* Lines 135-136: the key is a subscriber's and names a subscription
KeyUsable(validation) ==
  /\ validation.valid
  /\ validation.apiKey # Null
  /\ validation.apiKey.type = "SUBSCRIBER"
  /\ validation.apiKey.subscriptionId # None

\* Line 138: the subscription of the key is for the requested feed
KeyMatches(subscription, feedId) ==
  subscription # Null /\ subscription.feedId = feedId

\* Lines 139-145: checkAccess is called on the key's subscription
KeyChecked(k, net) ==
  [tried |-> TRUE, matched |-> TRUE,
   hasAccess |-> checkAccess(k.subscriptionId, k.consumerAddress, net.keyChk,
                             net.keyEpoch),
   apiKeyId |-> k.id,
   consumerAddress |-> k.consumerAddress,
   resolvedSubscriptionId |-> k.subscriptionId]

\* Lines 135-148, once validateApiKey has answered.  tried: the key names a
\* subscription, which was read; matched: the subscription is for the
\* requested feed, so checkAccess was called.
KeyValidated(validation, feedId, net) ==
  IF ~KeyUsable(validation) THEN NoKeyBranch
  ELSE IF KeyMatches(getSubscription(validation.apiKey.subscriptionId, net.keySub),
                     feedId)
    THEN KeyChecked(validation.apiKey, net)
  ELSE [NoKeyBranch EXCEPT !.tried = TRUE]

\* The API key branch, lines 130-158
KeyBranch(msg, net) == KeyValidated(validateApiKey(msg.apiKey), msg.feedId, net)

\* Whether the fallback of line 161 runs
LegacyRuns(msg, hasAccess) ==
  ~hasAccess /\ msg.subscriptionId # None /\ msg.consumer # None

\* The catch of line 149 is taken
DbError(msg, net) == msg.apiKey # None /\ net.dbThrows

\* The fallback makes the decision
ViaLegacy(msg, net, key) == ~DbError(msg, net) /\ LegacyRuns(msg, key.hasAccess)

\* Lines 161-165, after the API key branch has left the locals `key`
Fallback(msg, net, key) ==
  [ dbError |-> DbError(msg, net),
    hasAccess |-> IF ViaLegacy(msg, net, key)
                    THEN checkAccess(msg.subscriptionId, msg.consumer, net.legChk,
                                     net.legEpoch)
                    ELSE key.hasAccess,
    apiKeyId |-> key.apiKeyId,
    consumerAddress |-> IF ViaLegacy(msg, net, key) THEN msg.consumer
                        ELSE key.consumerAddress,
    resolvedSubscriptionId |-> IF ViaLegacy(msg, net, key) THEN msg.subscriptionId
                               ELSE key.resolvedSubscriptionId,
    keyTried |-> key.tried,
    keyChecked |-> key.matched,
    viaLegacy |-> ViaLegacy(msg, net, key) ]

\* The locals of the handler when it reaches line 167.  dbError: the catch
\* of line 149 was taken.  viaLegacy: the fallback made the decision.
Authorize(msg, net) ==
  Fallback(msg, net, IF msg.apiKey # None /\ ~DbError(msg, net)
                       THEN KeyBranch(msg, net)
                       ELSE NoKeyBranch)

(***************************************************************************)
(* walrus.service.ts: retrieveData                                         *)
(***************************************************************************)

\* retrieveData(blobId, undefined, feedId): with a feedId and Seal
\* configured the raw bytes are returned (Uint8Array); otherwise the body is
\* parsed and returned as a value.  fetchOk: the aggregator answered.  An
\* empty blob id names no blob.
retrieveData(blobId, feedId, fetchOk) ==
  IF blobId = 0 \/ ~fetchOk THEN [kind |-> "throw", blob |-> 0]
  ELSE IF feedId # None /\ sealConfigured THEN [kind |-> "bytes", blob |-> blobId]
  ELSE [kind |-> "value", blob |-> blobId]

(***************************************************************************)
(* seal_access.move: the policy the key servers evaluate                   *)
(***************************************************************************)

\* sui::object::id(feed).to_bytes(): object ids have one length, a single
\* byte here
to_bytes(feedId) == IF feedId = "F1" THEN <<1>> ELSE <<2>>

\* Lines 54-72: id ends with feed_id_bytes
EndsWith(id, feed_id_bytes) ==
  LET feed_id_len == Len(feed_id_bytes)
      id_len == Len(id)
  IN IF feed_id_len > id_len THEN FALSE
     ELSE \A i \in 0..(feed_id_len - 1) :
            id[id_len - feed_id_len + i + 1] = feed_id_bytes[i + 1]

\* A policy that does not compare the subscription's feed with the feed
check_policyAnyFeed(id, feedId, feed, subscription, sender, current_epoch) ==
  IF ~feed.isActive THEN FALSE
  ELSE IF ~feed.isPremium THEN FALSE
  ELSE IF subscription.consumer # sender THEN FALSE
  ELSE IF ~subscription.isActive THEN FALSE
  ELSE IF current_epoch > subscription.expiryEpoch THEN FALSE
  ELSE EndsWith(id, to_bytes(feedId))

\* check_policy(id, feed, subscription, ctx): sender and current_epoch come
\* from ctx, id is the identity the ciphertext was encrypted under, as
\* bytes, feedId is sui::object::id(feed)
check_policy(id, feedId, feed, subscription, sender, current_epoch) ==
  IF ~feed.isActive THEN FALSE
  ELSE IF ~feed.isPremium THEN FALSE
  ELSE IF subscription.consumer # sender THEN FALSE
  ELSE IF ~subscription.isActive THEN FALSE
  ELSE IF current_epoch > subscription.expiryEpoch THEN FALSE
  ELSE IF subscription.feedId # feedId THEN FALSE
  ELSE EndsWith(id, to_bytes(feedId))

\* const ENoAccess: u64 = 8
ENoAccess == 8

\* seal_approve(id, feed, subscription, ctx): the abort code, 0 when the
\* call succeeds
seal_approve(id, feedId, feed, subscription, sender, current_epoch) ==
  IF check_policy(id, feedId, feed, subscription, sender, current_epoch) THEN 0
  ELSE ENoAccess

(***************************************************************************)
(* SealService.decryptData (sui.service.ts lines 714-799)                  *)
(***************************************************************************)

\* The texts of the errors decryptData throws.  Every one is wrapped by the
\* catch of line 795 as 'Seal decryption failed: ' + message.
ErrNotConfigured == "Seal decryption failed: Seal is not configured"
ErrExpired == "Seal decryption failed: SESSION_KEY_EXPIRED"
ErrMismatch == "Seal decryption failed: Session key does not match consumer address"
ErrNoAccess ==
  "Seal decryption failed: No access to decryption keys. Please ensure you have an active subscription."
ErrFetchKeys == "Seal decryption failed: Unable to fetch decryption keys"
\* Errors of the libraries (parse, tx.build, decrypt, JSON.parse) carry a
\* text of their own; one that talks of something expired and one that
\* does not stand for them.
ErrLibrary == "Seal decryption failed: <library error>"
ErrLibraryExpired == "Seal decryption failed: <library error: ... expired ...>"

\* message === 'SESSION_KEY_EXPIRED' || message?.includes('expired')
\* (index.ts line 395); includes is case-sensitive
IncludesExpired(message) == message = ErrLibraryExpired

\* A test that takes every error of decryptData for an expiry
IsExpiryErrorAny(message) == message # None

IsExpiryError(message) ==
  message = "SESSION_KEY_EXPIRED" \/ IncludesExpired(message)

\* What the outside does to one decryptData call
\* parseOk: EncryptedObject.parse accepts the bytes; sealId: the feed whose
\* id the parsed object carries as its identity; keyServers: fetchKeys
\* reaches them; library: what decrypt and JSON.parse do after it
DecryptEnvs ==
  [parseOk : BOOLEAN, sealId : Feeds, keyServers : {"up", "down"},
   library : {"ok", ErrLibrary, ErrLibraryExpired}]

\* decryptData threw message; fetched tells whether fetchKeys was called
Thrown(message, fetched) ==
  [ok |-> FALSE, data |-> 0, message |-> message, fetched |-> fetched]

\* A decryptData that asks the key servers before it imports the session
\* key
decryptDataFetchesFirst(blob, feedId, subscriptionId, sessionKey, consumerAddress, env) ==
  LET subscription == IF subscriptionId \in SubIds THEN subscriptions[subscriptionId]
                      ELSE Null
  IN IF ~sealConfigured THEN Thrown(ErrNotConfigured, FALSE)
     ELSE IF ~env.parseOk THEN Thrown(ErrLibrary, FALSE)
     ELSE IF env.keyServers = "down" \/ subscription = Null
       THEN Thrown(ErrFetchKeys, TRUE)
     ELSE IF SessionKeyExpired(sessionKey) THEN Thrown(ErrExpired, TRUE)
     ELSE IF SessionKeyAddress[sessionKey] # consumerAddress
       THEN Thrown(ErrMismatch, TRUE)
     ELSE IF env.library # "ok" THEN Thrown(env.library, TRUE)
     ELSE [ok |-> TRUE, data |-> blob, message |-> None, fetched |-> TRUE]

\* The result of decryptData: the plaintext reading of the blob, or the
\* message of the error thrown
decryptData(blob, feedId, subscriptionId, sessionKey, consumerAddress, env) ==
  LET subscription == IF subscriptionId \in SubIds THEN subscriptions[subscriptionId]
                      ELSE Null
  IN IF ~sealConfigured THEN Thrown(ErrNotConfigured, FALSE)
     ELSE IF ~env.parseOk THEN Thrown(ErrLibrary, FALSE)
     ELSE IF SessionKeyExpired(sessionKey) THEN Thrown(ErrExpired, FALSE)
     ELSE IF SessionKeyAddress[sessionKey] # consumerAddress
       THEN Thrown(ErrMismatch, FALSE)
     ELSE IF env.keyServers = "down" \/ subscription = Null
       THEN Thrown(ErrFetchKeys, TRUE)
     ELSE IF seal_approve(to_bytes(env.sealId), feedId, feeds[feedId], subscription,
                          SessionKeyAddress[sessionKey], epoch) # 0
       THEN Thrown(ErrNoAccess, TRUE)
     ELSE IF env.library # "ok" THEN Thrown(env.library, TRUE)
     ELSE [ok |-> TRUE, data |-> blob, message |-> None, fetched |-> TRUE]

(***************************************************************************)
(* index.ts: connection registry and messages                              *)
(***************************************************************************)

ReqIds == {1}

VARIABLES
  conns,   \* connection -> WSClient fields and the state of its socket
  reqs,    \* subscribe requests being handled, by slot
  bc,      \* the broadcastDataUpdate call being made
  cache,   \* routes/data.ts: the NodeCache, feed -> reading cached under
           \* data_<feedId>, 0 when there is none
  done     \* the handler or call that has just returned, until the event
           \* loop takes up the next event

hubVars == <<conns, reqs, bc, cache, done>>

VARIABLES
  blobs,   \* the blob store: blob id -> the feed whose reading was uploaded
           \* under it and whether Seal ciphertext was uploaded
  ingest,  \* routes/iot.ts: the update request being handled, the number of
           \* updates accepted and the on-chain updates still to be made
  sensor   \* suisense sensor server: the readings list, the update
           \* requests being handled and the response being sent

VARIABLES
  read,    \* sui.service.ts: one getDataFeed or getSubscription call, its loop
           \* counter and the getObject requests it has made
  hook     \* frontend useWebSocket: the hook's refs, the sockets it has
           \* opened and the reconnect timers that are pending

sideVars == <<read, hook>>

ingestVars == <<blobs, ingest, sensor, sideVars>>

vars ==
  <<epoch, feeds, subscriptions, now, sealConfigured, sessionStore, conns, reqs, bc,
    cache, done, blobs, ingest, sensor, read, hook>>

\* Nothing is stored under a blob id
NoBlob == [feedId |-> None, sealed |-> FALSE]

\* No update request is being handled; update k carries reading k and its
\* upload is stored as blob k
IdleIngest ==
  [pc |-> "idle", feedId |-> None, reading |-> 0, encrypt |-> FALSE,
   feedIsPremium |-> FALSE, count |-> 0, pending |-> {}]

\* The sensor server after start.  received and stored are not state of
\* the server: they count the updates received and the readings stored,
\* and the k-th upload that succeeds returns blob id k.
IdleSensor ==
  [readings |-> <<>>, uploading |-> 0, received |-> 0, stored |-> 0,
   res |-> [kind |-> "none", data |-> <<>>]]

\* No getDataFeed or getSubscription call is being followed
IdleRead ==
  [pc |-> "idle", kind |-> None, id |-> None, attempt |-> 0, requests |-> 0,
   thrown |-> 0, result |-> Null, calls |-> 0]

\* A socket the hook has not created yet; `enabled` is the value the
\* socket's handlers closed over
NoSocket == [readyState |-> "none", enabled |-> FALSE]

\* The hook before its component is mounted: wsRef.current and
\* reconnectTimeoutRef.current are null (0).  opened counts the sockets
\* created, timers holds the sockets whose onclose set a timer that is
\* pending; disconnected keeps the history: disconnect() has run and the
\* component has not called connect() since
IdleHook ==
  [mounted |-> FALSE, enabled |-> FALSE, wsRef |-> 0, timerRef |-> 0,
   sockets |-> [s \in 1..MaxSockets |-> NoSocket], opened |-> 0,
   timers |-> {}, disconnected |-> FALSE]

InitIngest ==
  /\ blobs = [b \in 1..MaxReading |-> NoBlob]
  /\ ingest = IdleIngest
  /\ sensor = IdleSensor
  /\ read = IdleRead
  /\ hook = IdleHook

\* A WSClient before its first subscribe; status "new" is a connection not
\* yet made, "open" one in `clients` with readyState OPEN, "errored" one
\* removed from `clients` by the error handler while its socket is still
\* OPEN, "closed" one removed from `clients` whose socket is not OPEN.
\* lastGranted, replaced, unanswered, removedBy and silent are not fields of
\* WSClient, they keep the history of the client: the feed of the last
\* subscribe that was granted and not followed by an unsubscribe, the feed
\* whose binding that subscribe replaced, whether the ping of the last
\* heartbeat tick is still without a pong, the handler that removed the
\* client from `clients`, and whether an unsubscribe message was processed
\* while a subscribe request of the client was being handled and no
\* subscribe message has arrived since.
NewClient ==
  [status |-> "new", feedId |-> None, subscriptionId |-> None, apiKeyId |-> None,
   consumerAddress |-> None, sessionKey |-> None, isAlive |-> TRUE,
   lastGranted |-> None, replaced |-> None, unanswered |-> FALSE,
   removedBy |-> None, silent |-> FALSE]

\* Messages of the hub.  data is a reading number: for encrypted messages
\* the base64 of the blob holding it, otherwise the reading itself.
ErrorMsg(why) ==
  [type |-> "error", feedId |-> None, encrypted |-> FALSE, data |-> 0, error |-> why]

SubscribedMsg(feedId) ==
  [type |-> "subscribed", feedId |-> feedId, encrypted |-> FALSE, data |-> 0,
   error |-> None]

UnsubscribedMsg ==
  [type |-> "unsubscribed", feedId |-> None, encrypted |-> FALSE, data |-> 0,
   error |-> None]

PlainDataMsg(feedId, reading) ==
  [type |-> "data", feedId |-> feedId, encrypted |-> FALSE, data |-> reading,
   error |-> None]

EncryptedDataMsg(feedId, blob) ==
  [type |-> "data", feedId |-> feedId, encrypted |-> TRUE, data |-> blob,
   error |-> None]

\* ws.send on a socket that is not OPEN delivers nothing
Send(log, c, m) ==
  IF conns[c].status \in {"open", "errored"} THEN Append(log, m) ELSE log

\* The subscribe messages clients send: subscriptionId and consumer come as
\* a pair or not at all
LegacyProofs == {<<None, None>>} \cup (SubIds \X Addresses)

SubscribeMsgs ==
  { [feedId |-> f, subscriptionId |-> l[1], consumer |-> l[2], apiKey |-> k,
     sessionKey |-> sk] :
      f \in Feeds, l \in LegacyProofs, k \in ApiKeyStrings \cup {None},
      sk \in SessionKeyIds \cup {None} }

\* A slot with no request.  The fields up to sessionKey are the message,
\* those up to blob the handler's locals, sent is what the handler has sent;
\* granted, oldFeed and readFailed record the decision: whether access was
\* granted, the feed the client was bound to before, and whether a read of
\* the deciding checkAccess failed; sawOffer: when the request found no
\* stored session key, another request that had found none for the same API
\* key was about to store a different session key.
FreeReq ==
  [pc |-> "free", conn |-> None, feedId |-> None, subscriptionId |-> None,
   consumer |-> None, apiKey |-> None, sessionKey |-> None, apiKeyId |-> None,
   consumerAddress |-> None, resolvedSubscriptionId |-> None, expiresAt |-> 0,
   isPremium |-> FALSE, blob |-> 0, sent |-> <<>>, granted |-> FALSE,
   oldFeed |-> None, readFailed |-> FALSE, sawOffer |-> FALSE]

NoArgs ==
  [subscriptionId |-> None, sessionKey |-> None, consumerAddress |-> None,
   apiKeyId |-> None]

\* No call being made.  st[c]: where the call stands for connection c
\* ("decrypting": awaiting decryptData, "clearing": awaiting
\* clearSessionKey); args[c]: the arguments of the awaited call; sent[c]:
\* what the call sent to c; decrypted[c]: decryptData succeeded for c;
\* failure[c]: the message of the error decryptData threw for c;
\* target[c]: c was bound to the feed and open when the call began;
\* stable[c]: c kept its binding and socket state since then; fanout: which
\* fan-out the call ran.
IdleBroadcast ==
  [pc |-> "idle", feedId |-> None, data |-> 0, isPremium |-> FALSE, blob |-> 0,
   fanout |-> "none",
   st |-> [c \in Conns |-> "none"],
   args |-> [c \in Conns |-> NoArgs],
   sent |-> [c \in Conns |-> <<>>],
   decrypted |-> [c \in Conns |-> FALSE],
   failure |-> [c \in Conns |-> None],
   target |-> [c \in Conns |-> FALSE],
   stable |-> [c \in Conns |-> TRUE]]

\* No HTTP response: status 0
NoResponse ==
  [status |-> 0, feedId |-> None, authorisedBy |-> None, encrypted |-> FALSE,
   data |-> 0]

\* Nothing has just returned.  kind: "subscribe", "unsubscribe", "broadcast"
\* or "read"; req / bc / res: the request, the call or the HTTP response as
\* it ended; before: the client as it was when the last segment of the
\* handler began.
NoDone ==
  [kind |-> "none", req |-> FreeReq, bc |-> IdleBroadcast, before |-> NewClient,
   res |-> NoResponse]

\* The event loop is between two events
Quiet == done.kind = "none"

\* The handlers and calls that are waiting at an await
InFlight ==
  Cardinality({r \in DOMAIN reqs : reqs[r].pc # "free"}) + (IF bc.pc = "idle" THEN 0 ELSE 1)

\* While a broadcast is running, remember which connections kept their
\* binding and their socket state since it started
Track(newConns) ==
  IF bc.pc = "idle" THEN bc
  ELSE [bc EXCEPT !.stable =
          [c \in Conns |-> @[c] /\ newConns[c].status = conns[c].status
                                /\ newConns[c].feedId = conns[c].feedId]]

\* The async function returns: its promise settles before the event loop
\* takes up another event
Return ==
  /\ ~Quiet
  /\ done' = NoDone
  /\ UNCHANGED <<ledgerVars, ingestVars, envVars, conns, reqs, bc, cache>>

(***************************************************************************)
(* index.ts: wss.on('connection'), ws.on('pong'), ws.on('close'),          *)
(* ws.on('error') and the heartbeat interval                               *)
(***************************************************************************)

Connect(c) ==
  /\ Quiet
  /\ conns[c].status = "new"
  /\ conns' = [conns EXCEPT ![c].status = "open", ![c].isAlive = TRUE]
  /\ bc' = Track(conns')
  /\ UNCHANGED <<ledgerVars, ingestVars, envVars, reqs, cache, done>>

\* clients.delete(client) of a handler named by: a client already removed
\* keeps the name of the handler that removed it.
Removed(client, by) ==
  IF client.status = "open" THEN [client EXCEPT !.removedBy = by] ELSE client

Close(c) ==
  /\ Quiet
  /\ conns[c].status \in {"open", "errored"}
  /\ conns' = [conns EXCEPT ![c] = [Removed(@, "close") EXCEPT !.status = "closed"]]
  /\ bc' = Track(conns')
  /\ UNCHANGED <<ledgerVars, ingestVars, envVars, reqs, cache, done>>

\* The error handler removes the client from `clients`; the socket stays
\* OPEN until its close event.
Error(c) ==
  /\ Quiet
  /\ conns[c].status = "open"
  /\ conns' = [conns EXCEPT ![c] = [Removed(@, "error") EXCEPT !.status = "errored"]]
  /\ bc' = Track(conns')
  /\ UNCHANGED <<ledgerVars, ingestVars, envVars, reqs, cache, done>>

Pong(c) ==
  /\ Quiet
  /\ conns[c].status \in {"open", "errored"}
  /\ conns' = [conns EXCEPT ![c].isAlive = TRUE, ![c].unanswered = FALSE]
  /\ bc' = Track(conns')
  /\ UNCHANGED <<ledgerVars, ingestVars, envVars, reqs, cache, done>>

\* A heartbeat that pings every client and terminates none
HeartbeatClientNeverTerminates(client) ==
  IF client.status # "open" THEN client
  ELSE [client EXCEPT !.isAlive = FALSE, !.unanswered = TRUE]

\* One client of the heartbeat's clients.forEach: terminate and delete the
\* one that is not alive, otherwise mark it not alive and ping it.
HeartbeatClient(client) ==
  IF client.status # "open" THEN client
  ELSE IF ~client.isAlive
    THEN [client EXCEPT !.status = "closed", !.removedBy = "heartbeat"]
    ELSE [client EXCEPT !.isAlive = FALSE, !.unanswered = TRUE]

Heartbeat ==
  /\ Quiet
  /\ conns' = [c \in Conns |-> HeartbeatClient(conns[c])]
  /\ bc' = Track(conns')
  /\ UNCHANGED <<ledgerVars, ingestVars, envVars, reqs, cache, done>>
(***************************************************************************)
(* index.ts: ws.on('message'), type subscribe (lines 120-287)              *)
(***************************************************************************)

\* A bind that keeps the binding the client has
BindClientFirstWins(client, feedId, a) ==
  IF client.feedId # None THEN client
  ELSE [client EXCEPT !.feedId = feedId,
                      !.subscriptionId = a.resolvedSubscriptionId,
                      !.apiKeyId = a.apiKeyId,
                      !.consumerAddress = a.consumerAddress]

\* Lines 176-179
BindClient(client, feedId, a) ==
  [client EXCEPT !.feedId = feedId,
                 !.subscriptionId = a.resolvedSubscriptionId,
                 !.apiKeyId = a.apiKeyId,
                 !.consumerAddress = a.consumerAddress]

\* The client bound before the decision is looked at
ClientBoundBeforeCheck(client, feedId, a) == BindClient(client, feedId, a)

\* Lines 149-179: the client is bound only past the returns of lines 156
\* and 172
ClientAfterDecision(client, feedId, a) ==
  IF a.dbError \/ ~a.hasAccess THEN client ELSE BindClient(client, feedId, a)

\* The history of the client after its request for feedId was decided
Remember(client, granted, feedId) ==
  IF ~granted \/ client.lastGranted = feedId THEN client
  ELSE [client EXCEPT !.lastGranted = feedId, !.replaced = client.lastGranted]

\* A handler that gives the client no session key
AttachSessionKeyNever(client, finalSessionKey, consumerAddress, resolvedSubscriptionId) ==
  client

\* Lines 205-206
AttachSessionKey(client, finalSessionKey, consumerAddress, resolvedSubscriptionId) ==
  IF finalSessionKey # None /\ consumerAddress # None /\ resolvedSubscriptionId # None
    THEN [client EXCEPT !.sessionKey = finalSessionKey]
    ELSE client

\* The handler ends
Finished(req) == [req EXCEPT !.pc = "done"]

\* Lines 152-156, 167-173 and 310-313: an error message ends the handler
ReplyError(req, why) ==
  [Finished(req) EXCEPT !.sent = Send(@, req.conn, ErrorMsg(why))]

\* Lines 249-255: the acknowledgement, then the await of getDataFeed
Acknowledge(req) ==
  [req EXCEPT !.pc = "initFeed",
              !.sent = Send(@, req.conn, SubscribedMsg(req.feedId))]

\* The request of slot r goes on as req, or has ended as req
Proceed(r, req) ==
  IF req.pc = "done"
    THEN /\ reqs' = [reqs EXCEPT ![r] = FreeReq]
         /\ done' = [NoDone EXCEPT !.kind = "subscribe", !.req = req,
                                   !.before = conns[req.conn]]
    ELSE /\ reqs' = [reqs EXCEPT ![r] = req]
         /\ done' = done

\* The message arrives and takes a free slot; MaxInFlight calls may be in
\* flight for each slot.  Without an API key
\* and without subscriptionId and consumer the handler reaches line 167
\* without awaiting anything.
SubscribeReceive(r, c, msg) ==
  /\ Quiet
  /\ conns[c].status = "open"
  /\ reqs[r].pc = "free"
  /\ InFlight < MaxInFlight * Cardinality(DOMAIN reqs)
  /\ LET req == [FreeReq EXCEPT !.conn = c, !.feedId = msg.feedId,
                                !.subscriptionId = msg.subscriptionId,
                                !.consumer = msg.consumer, !.apiKey = msg.apiKey,
                                !.sessionKey = msg.sessionKey]
     IN Proceed(r, IF msg.apiKey = None /\ ~LegacyRuns(msg, FALSE)
                     THEN ReplyError(req, "denied")
                     ELSE [req EXCEPT !.pc = "auth"])
  /\ conns' = [conns EXCEPT ![c].silent = FALSE]
  /\ UNCHANGED <<ledgerVars, ingestVars, envVars, bc, cache>>

\* Whether a ledger read failed on the path that decided the request: the
\* fallback's checkAccess if it ran, otherwise the reads of the API key's
\* subscription
DecidingReadFailed(a, net) ==
  IF a.viaLegacy THEN ~ReadSurvives(net.legChk) \/ net.legEpoch
  ELSE /\ a.keyTried
       /\ \/ ~ReadSurvives(net.keySub)
          \/ a.keyChecked /\ (~ReadSurvives(net.keyChk) \/ net.keyEpoch)

\* Access is granted: the handler passes the returns of lines 156 and 172
Granted(a) == ~a.dbError /\ a.hasAccess

\* The client after lines 149-179
Bound(client, feedId, a) ==
  Remember(ClientAfterDecision(client, feedId, a), Granted(a), feedId)

\* The request once it is decided
DecidedRequest(req, client, a, net) ==
  [req EXCEPT !.granted = Granted(a),
              !.oldFeed = client.feedId,
              !.apiKeyId = a.apiKeyId,
              !.consumerAddress = a.consumerAddress,
              !.resolvedSubscriptionId = a.resolvedSubscriptionId,
              !.readFailed = DecidingReadFailed(a, net)]

\* Past line 173 the handler reads feedId and sessionKey only
Going(decided) ==
  [decided EXCEPT !.subscriptionId = None, !.consumer = None, !.apiKey = None]

\* Lines 149-206 for request req of connection c, with the locals a of the
\* access decision
SubscribeDecide(r, c, req, a, bound, decided) ==
  IF a.dbError
    THEN /\ conns' = [conns EXCEPT ![c] = bound]
         /\ Proceed(r, ReplyError(decided, "database"))
  ELSE IF ~a.hasAccess
    THEN /\ conns' = [conns EXCEPT ![c] = bound]
         /\ Proceed(r, ReplyError(decided, "denied"))
  ELSE IF req.sessionKey = None /\ a.apiKeyId # None
    THEN /\ conns' = [conns EXCEPT ![c] = bound]
         /\ Proceed(r, [Going(decided) EXCEPT !.pc = "getStored"])
  ELSE /\ conns' = [conns EXCEPT ![c] =
                      AttachSessionKey(bound, req.sessionKey, a.consumerAddress,
                                       a.resolvedSubscriptionId)]
       /\ Proceed(r, IF req.sessionKey # None /\ a.consumerAddress # None
                        /\ a.resolvedSubscriptionId # None /\ a.apiKeyId # None
                       THEN [Going(decided) EXCEPT !.pc = "checkStored"]
                       ELSE Acknowledge(Going(decided)))

\* The handler of request req goes on with the locals a
SubscribeWith(r, req, a, net) ==
  SubscribeDecide(r, req.conn, req, a, Bound(conns[req.conn], req.feedId, a),
                  DecidedRequest(req, conns[req.conn], a, net))

\* validateApiKey, getSubscription and checkAccess have answered: lines
\* 130-206, up to the next await
SubscribeAuthorize(r, net) ==
  /\ Quiet
  /\ reqs[r].pc = "auth"
  /\ SubscribeWith(r, reqs[r], Authorize(reqs[r], net), net)
  /\ bc' = Track(conns')
  /\ UNCHANGED <<ledgerVars, ingestVars, envVars, cache>>

\* getStoredSessionKey has answered (lines 185-206 and 249): the request
\* carried no session key.  A throw is caught at line 198.
SubscribeGotStored(r, throws) ==
  /\ Quiet
  /\ reqs[r].pc = "getStored"
  /\ LET req == reqs[r]
         c == req.conn
         finalSessionKey == IF throws THEN None ELSE getStoredSessionKey(req.apiKeyId)
     IN /\ sessionStore' = IF throws THEN sessionStore ELSE StoreAfterGet(req.apiKeyId)
        /\ conns' = [conns EXCEPT ![c] =
                       AttachSessionKey(@, finalSessionKey, req.consumerAddress,
                                        req.resolvedSubscriptionId)]
        /\ Proceed(r, Acknowledge(req))
  /\ UNCHANGED <<ledgerVars, ingestVars, now, sealConfigured, bc, cache>>

\* Another request has found no stored session key for the API key of req
\* and is about to store a different session key
OfferPending(r, req) ==
  \E q \in DOMAIN reqs \ {r} :
    /\ reqs[q].pc = "store"
    /\ reqs[q].apiKeyId = req.apiKeyId
    /\ reqs[q].sessionKey # req.sessionKey

\* getStoredSessionKey of line 213 has answered.  It is called outside any
\* inner try: a throw goes to the catch of line 297, which reports it.
SubscribeCheckStored(r, throws) ==
  /\ Quiet
  /\ reqs[r].pc = "checkStored"
  /\ LET req == reqs[r]
         existingStored == getStoredSessionKey(req.apiKeyId)
     IN IF throws
          THEN /\ Proceed(r, ReplyError(req, "exception"))
               /\ UNCHANGED sessionStore
        ELSE /\ sessionStore' = StoreAfterGet(req.apiKeyId)
             /\ Proceed(r, IF existingStored = None
                             THEN [req EXCEPT !.pc = "store",
                                              !.expiresAt = now + StoreTtl,
                                              !.sawOffer = OfferPending(r, req)]
                             ELSE Acknowledge(req))
  /\ UNCHANGED <<ledgerVars, ingestVars, now, sealConfigured, conns, bc, cache>>

\* storeSessionKey has answered (lines 219-228); a throw is caught
SubscribeStore(r, throws) ==
  /\ Quiet
  /\ reqs[r].pc = "store"
  /\ LET req == reqs[r]
     IN /\ sessionStore' =
             IF throws THEN sessionStore
             ELSE storeSessionKey(sessionStore, req.apiKeyId, req.sessionKey,
                                  req.expiresAt)
        /\ Proceed(r, Acknowledge([req EXCEPT !.expiresAt = 0]))
  /\ UNCHANGED <<ledgerVars, ingestVars, now, sealConfigured, conns, bc, cache>>

\* getDataFeed has answered (lines 255-259)
SubscribeInitFeed(r, fails) ==
  /\ Quiet
  /\ reqs[r].pc = "initFeed"
  /\ LET req == reqs[r]
         feed == getDataFeed(req.feedId, fails)
     IN Proceed(r, IF feed = Null THEN Finished(req)
                   ELSE [req EXCEPT !.pc = "initData", !.isPremium = feed.isPremium,
                                    !.blob = feed.walrusBlobId])
  /\ UNCHANGED <<ledgerVars, ingestVars, envVars, conns, bc, cache>>

\* The initial data message, lines 257-286
InitialData(feedId, isPremium, got) ==
  IF isPremium /\ got.kind = "bytes" THEN EncryptedDataMsg(feedId, got.blob)
  ELSE PlainDataMsg(feedId, got.blob)

\* retrieveData has answered (lines 259-286); a throw goes to line 297
SubscribeInitData(r, fetchOk) ==
  /\ Quiet
  /\ reqs[r].pc = "initData"
  /\ LET req == reqs[r]
         got == retrieveData(req.blob, IF req.isPremium THEN req.feedId ELSE None,
                             fetchOk)
     IN Proceed(r, IF got.kind = "throw" THEN ReplyError(req, "exception")
                   ELSE [Finished(req) EXCEPT
                           !.sent = Send(@, req.conn,
                                         InitialData(req.feedId, req.isPremium, got))])
  /\ UNCHANGED <<ledgerVars, ingestVars, envVars, conns, bc, cache>>

(***************************************************************************)
(* index.ts: ws.on('message'), type unsubscribe (lines 288-296)            *)
(***************************************************************************)

\* Lines 289-291
UnsubscribeClient(client) ==
  [client EXCEPT !.feedId = None, !.subscriptionId = None, !.apiKeyId = None]

\* Lines 293-295
UnsubscribeReply(client) == <<UnsubscribedMsg>>

\* A subscribe request of connection c is being handled
Handling(c) == \E r \in DOMAIN reqs : reqs[r].pc # "free" /\ reqs[r].conn = c

Unsubscribe(c) ==
  /\ Quiet
  /\ conns[c].status = "open"
  /\ conns' = [conns EXCEPT ![c] = [UnsubscribeClient(@) EXCEPT !.lastGranted = None,
                                                             !.replaced = None,
                                                             !.silent = Handling(c)]]
  /\ done' = [NoDone EXCEPT !.kind = "unsubscribe",
                            !.req = [FreeReq EXCEPT !.pc = "done", !.conn = c,
                                                    !.sent = UnsubscribeReply(conns[c])],
                            !.before = conns[c]]
  /\ bc' = Track(conns')
  /\ UNCHANGED <<ledgerVars, ingestVars, envVars, reqs, cache>>

(***************************************************************************)
(* index.ts: broadcastDataUpdate (lines 343-466)                           *)
(***************************************************************************)

\* A fan-out over every socket that is OPEN, in `clients` or not
IsTargetAnyOpenSocket(client, feedId) ==
  client.feedId = feedId /\ client.status \in {"open", "errored"}

\* client.feedId === feedId && client.ws.readyState === WebSocket.OPEN, for
\* the clients in `clients`
IsTarget(client, feedId) == client.feedId = feedId /\ client.status = "open"

\* A plaintext fan-out that marks its messages as encrypted
FallbackMsgMarked(feedId, data) == EncryptedDataMsg(feedId, data)

\* Lines 455-460: what the plaintext fan-out sends
FallbackMsg(feedId, data) == PlainDataMsg(feedId, data)

\* Lines 451-465: the plaintext fan-out
PlainFanout(b) ==
  [b EXCEPT !.pc = "done", !.fanout = "plain",
            !.sent = [c \in Conns |->
                        IF IsTarget(conns[c], b.feedId)
                          THEN Send(@[c], c, FallbackMsg(b.feedId, b.data))
                          ELSE @[c]]]

\* A fan-out that attempts decryption for no client
WantsDecryptNever(client) == FALSE

\* Line 368: decryption is attempted for this client
WantsDecrypt(client) ==
  /\ client.sessionKey # None
  /\ client.subscriptionId # None
  /\ client.consumerAddress # None
  /\ sealConfigured

\* A premium fan-out without the return of line 437: the clients that are
\* sent the ciphertext at once are sent the plaintext fan-out's message too
PremiumFanoutNoReturn(b, blob) ==
  LET targets == {c \in Conns : IsTarget(conns[c], b.feedId)}
      waiting == {c \in targets : WantsDecrypt(conns[c])}
  IN [b EXCEPT !.pc = IF waiting = {} THEN "done" ELSE "decrypt",
               !.fanout = "premium", !.blob = blob,
               !.st = [c \in Conns |-> IF c \in waiting THEN "decrypting" ELSE "none"],
               !.args = [c \in Conns |->
                           IF c \in waiting
                             THEN [subscriptionId |-> conns[c].subscriptionId,
                                   sessionKey |-> conns[c].sessionKey,
                                   consumerAddress |-> conns[c].consumerAddress,
                                   apiKeyId |-> None]
                             ELSE NoArgs],
               !.sent = [c \in Conns |->
                           IF c \in targets \ waiting
                             THEN <<EncryptedDataMsg(b.feedId, blob),
                                    FallbackMsg(b.feedId, b.data)>>
                             ELSE @[c]]]

\* A premium fan-out that sends nothing to the clients it does not decrypt
\* for
PremiumFanoutSkipsKeyless(b, blob) ==
  LET targets == {c \in Conns : IsTarget(conns[c], b.feedId)}
      waiting == {c \in targets : WantsDecrypt(conns[c])}
  IN [b EXCEPT !.pc = IF waiting = {} THEN "done" ELSE "decrypt",
               !.fanout = "premium", !.blob = blob,
               !.st = [c \in Conns |-> IF c \in waiting THEN "decrypting" ELSE "none"],
               !.args = [c \in Conns |->
                           IF c \in waiting
                             THEN [subscriptionId |-> conns[c].subscriptionId,
                                   sessionKey |-> conns[c].sessionKey,
                                   consumerAddress |-> conns[c].consumerAddress,
                                   apiKeyId |-> None]
                             ELSE NoArgs]]

\* Lines 363-436, up to the await of each client's callback: clients for
\* which decryption is attempted wait for decryptData, the others are sent
\* the ciphertext at once
PremiumFanout(b, blob) ==
  LET targets == {c \in Conns : IsTarget(conns[c], b.feedId)}
      waiting == {c \in targets : WantsDecrypt(conns[c])}
  IN [b EXCEPT !.pc = IF waiting = {} THEN "done" ELSE "decrypt",
               !.fanout = "premium", !.blob = blob,
               !.st = [c \in Conns |-> IF c \in waiting THEN "decrypting" ELSE "none"],
               !.args = [c \in Conns |->
                           IF c \in waiting
                             THEN [subscriptionId |-> conns[c].subscriptionId,
                                   sessionKey |-> conns[c].sessionKey,
                                   consumerAddress |-> conns[c].consumerAddress,
                                   apiKeyId |-> None]
                             ELSE NoArgs],
               !.sent = [c \in Conns |->
                           IF c \in targets \ waiting
                             THEN Send(@[c], c, EncryptedDataMsg(b.feedId, blob))
                             ELSE @[c]]]

\* The call goes on as b, or has returned as b
Continue(b) ==
  IF b.pc = "done"
    THEN /\ bc' = IdleBroadcast
         /\ done' = [NoDone EXCEPT !.kind = "broadcast", !.bc = b]
    ELSE /\ bc' = b
         /\ done' = done

\* The call is made: broadcastDataUpdate(feedId, data, isPremium).  Without
\* isPremium it runs to its end at once.
BroadcastCall(feedId, data, isPremium) ==
  /\ Quiet
  /\ bc.pc = "idle"
  /\ InFlight < MaxInFlight
  /\ LET b == [IdleBroadcast EXCEPT
                 !.feedId = feedId, !.data = data, !.isPremium = isPremium,
                 !.target = [c \in Conns |-> IsTarget(conns[c], feedId)]]
     IN Continue(IF isPremium THEN [b EXCEPT !.pc = "feed"] ELSE PlainFanout(b))
  /\ UNCHANGED <<ledgerVars, envVars, conns, reqs, cache>>

\* The call made by a caller that is not followed here
BroadcastStart(feedId, data, isPremium) ==
  /\ BroadcastCall(feedId, data, isPremium)
  /\ UNCHANGED ingestVars

\* getDataFeed has answered (lines 350-356)
BroadcastGotFeed(fails) ==
  /\ Quiet
  /\ bc.pc = "feed"
  /\ LET feed == getDataFeed(bc.feedId, fails)
     IN Continue(IF feed = Null \/ feed.walrusBlobId = 0 THEN PlainFanout(bc)
                 ELSE [bc EXCEPT !.pc = "blob", !.blob = feed.walrusBlobId])
  /\ UNCHANGED <<ledgerVars, ingestVars, envVars, conns, reqs, cache>>

\* retrieveData has answered (lines 356-366 and 438-448)
BroadcastGotBlob(fetchOk) ==
  /\ Quiet
  /\ bc.pc = "blob"
  /\ LET encryptedData == retrieveData(bc.blob, bc.feedId, fetchOk)
     IN Continue(IF encryptedData.kind = "bytes"
                   THEN PremiumFanout(bc, encryptedData.blob)
                   ELSE PlainFanout(bc))
  /\ UNCHANGED <<ledgerVars, ingestVars, envVars, conns, reqs, cache>>

\* A Promise.all that rejects with the error of a callback: the call goes on
\* to the plaintext fan-out
SettleRejects(b) ==
  IF \E c \in Conns : b.failure[c] # None
    THEN PlainFanout([b EXCEPT !.st = [c \in Conns |-> "none"]])
  ELSE IF \A c \in Conns : b.st[c] = "none" THEN [b EXCEPT !.pc = "done"] ELSE b

\* Promise.all settles when no callback is left waiting (line 437)
Settle(b) ==
  IF \A c \in Conns : b.st[c] = "none" THEN [b EXCEPT !.pc = "done"] ELSE b

\* A callback that sends the ciphertext whatever decryptData answered
DecryptedMsgCiphertext(feedId, blob, res) == EncryptedDataMsg(feedId, blob)

\* Lines 384-389 and 423-430: what a client is sent once decryptData has
\* answered
DecryptedMsg(feedId, blob, res) ==
  IF res.ok THEN PlainDataMsg(feedId, res.data) ELSE EncryptedDataMsg(feedId, blob)

\* decryptData has answered for client c (lines 375-430)
BroadcastDecrypted(c, env) ==
  /\ Quiet
  /\ bc.pc = "decrypt"
  /\ bc.st[c] = "decrypting"
  /\ LET a == bc.args[c]
         res == decryptData(bc.blob, bc.feedId, a.subscriptionId, a.sessionKey,
                            a.consumerAddress, env)
         expired == ~res.ok /\ IsExpiryError(res.message)
         clearing == expired /\ conns[c].apiKeyId # None
     IN /\ conns' = IF expired THEN [conns EXCEPT ![c].sessionKey = None] ELSE conns
        /\ Continue(Settle([bc EXCEPT
              !.st[c] = IF clearing THEN "clearing" ELSE "none",
              !.args[c] = IF clearing
                            THEN [NoArgs EXCEPT !.apiKeyId = conns[c].apiKeyId]
                            ELSE NoArgs,
              !.decrypted[c] = res.ok,
              !.failure[c] = IF res.ok THEN None ELSE res.message,
              !.sent[c] = IF clearing THEN @
                          ELSE Send(@, c, DecryptedMsg(bc.feedId, bc.blob, res))]))
  /\ UNCHANGED <<ledgerVars, ingestVars, envVars, reqs, cache>>

\* clearSessionKey has answered for client c (lines 405-430); a throw is
\* caught
BroadcastCleared(c, throws) ==
  /\ Quiet
  /\ bc.pc = "decrypt"
  /\ bc.st[c] = "clearing"
  /\ sessionStore' = IF throws THEN sessionStore
                     ELSE clearSessionKey(sessionStore, bc.args[c].apiKeyId)
  /\ Continue(Settle([bc EXCEPT
        !.st[c] = "none",
        !.args[c] = NoArgs,
        !.sent[c] = Send(@, c, EncryptedDataMsg(bc.feedId, bc.blob))]))
  /\ UNCHANGED <<ledgerVars, ingestVars, now, sealConfigured, conns, reqs, cache>>

(***************************************************************************)
(* routes/data.ts: GET /api/data/:feedId (lines 24-189)                    *)
(***************************************************************************)

\* No API key decided the request
NoDataKey == [hasAccess |-> FALSE, subscriptionId |-> None]

\* Lines 106-119: the API key the middleware accepted (row, Null when there
\* is none).  subscriptionId: the subscription checkAccess was called on.
DataKey(row, feedId, net) ==
  IF row = Null \/ row.type # "SUBSCRIBER" \/ row.subscriptionId = None
    THEN NoDataKey
  ELSE IF ~KeyMatches(getSubscription(row.subscriptionId, net.keySub), feedId)
    THEN NoDataKey
  ELSE [hasAccess |-> checkAccess(row.subscriptionId, row.consumerAddress,
                                  net.keyChk, net.keyEpoch),
        subscriptionId |-> row.subscriptionId]

\* Lines 122-127: the fallback to the subscriptionId and consumer of the
\* query string.  authorisedBy: the subscription the deciding checkAccess
\* was made on.
DataFallback(query, net, k) ==
  IF ~k.hasAccess /\ query[1] # None /\ query[2] # None
    THEN [hasAccess |-> checkAccess(query[1], query[2], net.legChk, net.legEpoch),
          authorisedBy |-> query[1]]
    ELSE [hasAccess |-> k.hasAccess, authorisedBy |-> k.subscriptionId]

\* Lines 102-127: the access decision.  key is the API key the middleware
\* accepted (None: no key or one it rejected), query the subscriptionId and
\* consumer of the query string.
DataAccess(feedId, query, key, net) ==
  DataFallback(query, net,
               DataKey(IF key \in DOMAIN ApiKeyRows THEN ApiKeyRows[key] ELSE Null,
                       feedId, net))

Response(status, feedId, authorisedBy, encrypted, data) ==
  [status |-> status, feedId |-> feedId, authorisedBy |-> authorisedBy,
   encrypted |-> encrypted, data |-> data]

\* res.json / res.status(...).json
Respond(res) == done' = [NoDone EXCEPT !.kind = "read", !.res = res]

\* A route that caches whatever retrieveData answered
DataReadCachesAll(feedId, feed, by, got) ==
  IF cache[feedId] # 0
    THEN Respond(Response(200, feedId, by, FALSE, cache[feedId])) /\ UNCHANGED cache
  ELSE IF got.kind = "throw" \/ (feed.isPremium /\ got.kind # "bytes")
    THEN Respond(Response(500, feedId, by, FALSE, 0)) /\ UNCHANGED cache
  ELSE /\ cache' = [cache EXCEPT ![feedId] = got.blob]
       /\ Respond(Response(200, feedId, by, feed.isPremium, got.blob))

\* Lines 136-187: the data of a request that has access; got is what
\* retrieveData answers when it is called
DataRead(feedId, feed, by, got) ==
  IF cache[feedId] # 0
    THEN Respond(Response(200, feedId, by, FALSE, cache[feedId])) /\ UNCHANGED cache
  ELSE IF got.kind = "throw" \/ (feed.isPremium /\ got.kind # "bytes")
    THEN Respond(Response(500, feedId, by, FALSE, 0)) /\ UNCHANGED cache
  ELSE IF feed.isPremium
    THEN Respond(Response(200, feedId, by, TRUE, got.blob)) /\ UNCHANGED cache
  ELSE /\ cache' = [cache EXCEPT ![feedId] = got.blob]
       /\ Respond(Response(200, feedId, by, FALSE, got.blob))

\* Lines 31-187 once getDataFeed has answered feed
DataRoute(feedId, feed, acc, fetchOk) ==
  IF feed = Null
    THEN Respond(Response(404, feedId, None, FALSE, 0)) /\ UNCHANGED cache
  ELSE IF ~feed.isActive
    THEN Respond(Response(400, feedId, None, FALSE, 0)) /\ UNCHANGED cache
  ELSE IF ~acc.hasAccess
    THEN Respond(Response(403, feedId, None, FALSE, 0)) /\ UNCHANGED cache
  ELSE DataRead(feedId, feed, acc.authorisedBy,
                retrieveData(feed.walrusBlobId,
                             IF feed.isPremium THEN feedId ELSE None, fetchOk))

\* The whole handler, for a request that is not a preview
GetData(feedId, query, key, net, fails, fetchOk) ==
  /\ Quiet
  /\ DataRoute(feedId, getDataFeed(feedId, fails),
               DataAccess(feedId, query, key, net), fetchOk)
  /\ UNCHANGED <<ledgerVars, ingestVars, envVars, conns, reqs, bc>>

(***************************************************************************)
(* The outside: the chain                                                  *)
(***************************************************************************)

\* The chain enters its next epoch
AdvanceEpoch ==
  /\ Quiet
  /\ epoch < MaxEpoch
  /\ epoch' = epoch + 1
  /\ UNCHANGED <<feeds, subscriptions, envVars, hubVars, ingestVars>>

\* update_feed_data: the feed points to the blob of a new reading
UpdateFeed(f, blobId) ==
  /\ Quiet
  /\ feeds[f].walrusBlobId < blobId
  /\ feeds' = [feeds EXCEPT ![f].walrusBlobId = blobId]
  /\ UNCHANGED <<epoch, subscriptions, envVars, hubVars, ingestVars>>

(***************************************************************************)
(* Initial states                                                          *)
(***************************************************************************)

\* F1 is a premium feed that has no reading yet, F2 a public one.  S1 is a
\* subscription of A to F1 that ends with epoch 0, S2 one of A to F2.
InitLedger ==
  /\ epoch = 0
  /\ feeds = [F1 |-> [isPremium |-> TRUE, isActive |-> TRUE, walrusBlobId |-> 0],
              F2 |-> [isPremium |-> FALSE, isActive |-> TRUE, walrusBlobId |-> 1]]
  /\ subscriptions =
       [S1 |-> [consumer |-> "A", feedId |-> "F1", isActive |-> TRUE, expiryEpoch |-> 0],
        S2 |-> [consumer |-> "A", feedId |-> "F2", isActive |-> TRUE,
                expiryEpoch |-> MaxEpoch]]

InitEnv ==
  /\ now = 0
  /\ sealConfigured \in BOOLEAN
  /\ sessionStore = [k \in {"K1"} |-> NoEntry]

InitHub ==
  /\ conns = [c \in Conns |-> NewClient]
  /\ reqs = [r \in ReqIds |-> FreeReq]
  /\ bc = IdleBroadcast
  /\ cache = [f \in Feeds |-> 0]
  /\ done = NoDone

Init == InitLedger /\ InitEnv /\ InitHub /\ InitIngest

(***************************************************************************)
(* The hub: connections, subscriptions and broadcasts                      *)
(***************************************************************************)

Legacy(feedId, subscriptionId, consumer, sessionKey) ==
  [feedId |-> feedId, subscriptionId |-> subscriptionId, consumer |-> consumer,
   apiKey |-> None, sessionKey |-> sessionKey]

WithKey(feedId, apiKey, sessionKey) ==
  [feedId |-> feedId, subscriptionId |-> None, consumer |-> None,
   apiKey |-> apiKey, sessionKey |-> sessionKey]

\* The subscribe messages of the hub's clients: c1 holds API key K1 and
\* session keys, c2 subscribes with subscriptionId and consumer only
HubMsgs(c) ==
  IF c = "c1"
    THEN {WithKey("F1", "K1", "KA"), WithKey("F1", "K1", None),
          Legacy("F1", "S1", "A", "KB"), Legacy("F2", "S2", "A", None)}
    ELSE {Legacy("F1", "S1", "A", None), Legacy("F2", "S2", "A", None)}

Subscribe ==
  \/ \E r \in ReqIds, net \in NetOutcomes : SubscribeAuthorize(r, net)
  \/ \E r \in ReqIds, throws \in BOOLEAN : SubscribeGotStored(r, throws)
  \/ \E r \in ReqIds, throws \in BOOLEAN : SubscribeCheckStored(r, throws)
  \/ \E r \in ReqIds, throws \in BOOLEAN : SubscribeStore(r, throws)
  \/ \E r \in ReqIds, fails \in FailCounts : SubscribeInitFeed(r, fails)
  \/ \E r \in ReqIds, fetchOk \in BOOLEAN : SubscribeInitData(r, fetchOk)

Broadcast ==
  \/ \E f \in Feeds, data \in 1..MaxReading, isPremium \in BOOLEAN :
       (isPremium => feeds[f].isPremium) /\ BroadcastStart(f, data, isPremium)
  \/ \E fails \in FailCounts : BroadcastGotFeed(fails)
  \/ \E fetchOk \in BOOLEAN : BroadcastGotBlob(fetchOk)
  \/ \E c \in Conns, env \in DecryptEnvs : BroadcastDecrypted(c, env)
  \/ \E c \in Conns, throws \in BOOLEAN : BroadcastCleared(c, throws)

Next ==
  \/ Return
  \/ \E c \in Conns : Connect(c)
  \/ \E c \in Conns : Close(c)
  \/ \E r \in ReqIds, c \in Conns : \E msg \in HubMsgs(c) : SubscribeReceive(r, c, msg)
  \/ Subscribe
  \/ \E c \in Conns : Unsubscribe(c)
  \/ Broadcast
  \/ \E blobId \in 1..MaxReading : UpdateFeed("F1", blobId)

Spec == Init /\ [][Next]_vars

(***************************************************************************)
(* One client and the whole range of its subscribe messages                *)
(***************************************************************************)

NextSubscribe ==
  \/ Return
  \/ Connect("c1")
  \/ Close("c1")
  \/ \E r \in ReqIds, msg \in SubscribeMsgs : SubscribeReceive(r, "c1", msg)
  \/ Subscribe
  \/ Unsubscribe("c1")
  \/ AdvanceEpoch

SpecSubscribe == Init /\ [][NextSubscribe]_vars

(***************************************************************************)
(* The two gates to a feed: subscribe and the REST read                    *)
(***************************************************************************)

\* Subscribe messages without a session key
GateMsgs == {msg \in SubscribeMsgs : msg.sessionKey = None}

DataQueries == [feedId : Feeds, query : LegacyProofs, key : ApiKeyStrings \cup {None}]

NextGate ==
  \/ Return
  \/ Connect("c1")
  \/ \E r \in ReqIds, msg \in GateMsgs : SubscribeReceive(r, "c1", msg)
  \/ \E r \in ReqIds, net \in NetOutcomes : SubscribeAuthorize(r, net)
  \/ \E r \in ReqIds, throws \in BOOLEAN : SubscribeGotStored(r, throws)
  \/ \E r \in ReqIds, fails \in FailCounts : SubscribeInitFeed(r, fails)
  \/ \E r \in ReqIds, fetchOk \in BOOLEAN : SubscribeInitData(r, fetchOk)
  \/ \E q \in DataQueries, net \in NetOutcomes, fails \in FailCounts,
        fetchOk \in BOOLEAN :
       GetData(q.feedId, q.query, q.key, net, fails, fetchOk)
  \/ AdvanceEpoch

SpecGate == Init /\ [][NextGate]_vars

(***************************************************************************)
(* The access decision of subscribe over the states of the ledger          *)
(***************************************************************************)

\* Feed F1 and subscription S1 are in any state, at any epoch
InitAccess ==
  /\ epoch \in 0..MaxEpoch
  /\ \E feed \in {f \in DataFeedType : f.walrusBlobId = 1} :
       feeds = [F1 |-> feed,
                F2 |-> [isPremium |-> FALSE, isActive |-> TRUE, walrusBlobId |-> 1]]
  /\ \E subscription \in SubscriptionType :
       subscriptions =
         [S1 |-> subscription,
          S2 |-> [consumer |-> "A", feedId |-> "F2", isActive |-> TRUE,
                  expiryEpoch |-> MaxEpoch]]
  /\ InitEnv
  /\ InitHub
  /\ InitIngest

\* Every read succeeds
NextAccess ==
  \/ Return
  \/ Connect("c1")
  \/ \E r \in ReqIds, msg \in GateMsgs : SubscribeReceive(r, "c1", msg)
  \/ \E r \in ReqIds : SubscribeAuthorize(r, NetAllUp)
  \/ \E r \in ReqIds : SubscribeGotStored(r, FALSE)
  \/ \E r \in ReqIds : SubscribeInitFeed(r, 0)
  \/ \E r \in ReqIds : SubscribeInitData(r, TRUE)

SpecAccess == InitAccess /\ [][NextAccess]_vars


(***************************************************************************)
(* The premium fan-out to two clients of one identity                      *)
(***************************************************************************)

\* Both clients hold API key K1 and its session key KA, and may subscribe
\* without a session key
FanoutMsgs == {WithKey("F1", "K1", "KA"), Legacy("F1", "S1", "A", None)}

\* The reads of subscribe succeed; decryptData and clearSessionKey do what
\* they may
NextFanout ==
  \/ Return
  \/ \E c \in Conns : Connect(c)
  \/ \E c \in Conns : Close(c)
  \/ \E r \in ReqIds, c \in Conns, msg \in FanoutMsgs : SubscribeReceive(r, c, msg)
  \/ \E r \in ReqIds : SubscribeAuthorize(r, NetAllUp)
  \/ \E r \in ReqIds : SubscribeCheckStored(r, FALSE)
  \/ \E r \in ReqIds : SubscribeStore(r, FALSE)
  \/ \E r \in ReqIds : SubscribeInitFeed(r, 0)
  \/ \E r \in ReqIds : SubscribeInitData(r, TRUE)
  \/ \E data \in 1..MaxReading : BroadcastStart("F1", data, TRUE)
  \/ BroadcastGotFeed(0)
  \/ BroadcastGotBlob(TRUE)
  \/ \E c \in Conns, env \in DecryptEnvs : BroadcastDecrypted(c, env)
  \/ \E c \in Conns, throws \in BOOLEAN : BroadcastCleared(c, throws)
  \/ \E blobId \in 1..MaxReading : UpdateFeed("F1", blobId)

SpecFanout == Init /\ [][NextFanout]_vars

(***************************************************************************)
(* Session keys and stored entries as time passes                          *)
(***************************************************************************)

\* Date.now() advances by one unit
Tick ==
  /\ Quiet
  /\ now < MaxTime
  /\ now' = now + 1
  /\ UNCHANGED <<ledgerVars, ingestVars, sealConfigured, sessionStore, conns, reqs, bc, cache, done>>

\* Subscribe messages with API key K1: c1 sends them with and without
\* session key KA, c2 never sends a session key
ClockMsgs(c) ==
  IF c = "c1" THEN {WithKey("F1", "K1", "KA"), WithKey("F1", "K1", None)}
  ELSE {WithKey("F1", "K1", None)}

NextClock ==
  \/ Return
  \/ Tick
  \/ \E c \in Conns : Connect(c)
  \/ \E r \in ReqIds, c \in Conns : \E msg \in ClockMsgs(c) : SubscribeReceive(r, c, msg)
  \/ \E r \in ReqIds : SubscribeAuthorize(r, NetAllUp)
  \/ \E r \in ReqIds : SubscribeGotStored(r, FALSE)
  \/ \E r \in ReqIds : SubscribeCheckStored(r, FALSE)
  \/ \E r \in ReqIds : SubscribeStore(r, FALSE)
  \/ \E r \in ReqIds : SubscribeInitFeed(r, 0)
  \/ \E r \in ReqIds : SubscribeInitData(r, TRUE)
  \/ \E data \in 1..MaxReading : BroadcastStart("F1", data, TRUE)
  \/ BroadcastGotFeed(0)
  \/ BroadcastGotBlob(TRUE)
  \/ \E c \in Conns, env \in DecryptEnvs : BroadcastDecrypted(c, env)
  \/ \E c \in Conns, throws \in BOOLEAN : BroadcastCleared(c, throws)
  \/ \E blobId \in 1..MaxReading : UpdateFeed("F1", blobId)

SpecClock == Init /\ [][NextClock]_vars

(***************************************************************************)
(* Two subscribe requests that offer session keys for one API key          *)
(***************************************************************************)

RaceIds == 1..MaxRacing

\* c1 offers session key KA for API key K1, c2 offers KB
RaceMsgs(c) == {WithKey("F1", "K1", IF c = "c1" THEN "KA" ELSE "KB")}

InitRace ==
  /\ InitLedger
  /\ InitEnv
  /\ conns = [c \in Conns |-> NewClient]
  /\ reqs = [r \in RaceIds |-> FreeReq]
  /\ bc = IdleBroadcast
  /\ cache = [f \in Feeds |-> 0]
  /\ done = NoDone
  /\ InitIngest

NextRace ==
  \/ Return
  \/ \E c \in Conns : Connect(c)
  \/ \E r \in RaceIds, c \in Conns : \E msg \in RaceMsgs(c) : SubscribeReceive(r, c, msg)
  \/ \E r \in RaceIds : SubscribeAuthorize(r, NetAllUp)
  \/ \E r \in RaceIds : SubscribeCheckStored(r, FALSE)
  \/ \E r \in RaceIds : SubscribeStore(r, FALSE)
  \/ \E r \in RaceIds : SubscribeInitFeed(r, 0)
  \/ \E r \in RaceIds : SubscribeInitData(r, TRUE)

SpecRace == InitRace /\ [][NextRace]_vars

(***************************************************************************)
(* The client set: heartbeat, close and error                              *)
(***************************************************************************)

\* Subscribe messages with subscriptionId and consumer, for either feed
HeartbeatMsgs == {Legacy("F1", "S1", "A", None), Legacy("F2", "S2", "A", None)}

\* The reads succeed; the clients hold no session key, so that the premium
\* fan-out awaits nothing
NextHeartbeat ==
  \/ Return
  \/ Heartbeat
  \/ \E c \in Conns : Connect(c)
  \/ \E c \in Conns : Pong(c)
  \/ \E c \in Conns : Close(c)
  \/ \E c \in Conns : Error(c)
  \/ \E r \in ReqIds, c \in Conns, msg \in HeartbeatMsgs : SubscribeReceive(r, c, msg)
  \/ \E r \in ReqIds : SubscribeAuthorize(r, NetAllUp)
  \/ \E r \in ReqIds : SubscribeInitFeed(r, 0)
  \/ \E r \in ReqIds : SubscribeInitData(r, TRUE)
  \/ \E f \in Feeds, data \in 1..MaxReading, isPremium \in BOOLEAN :
       (isPremium => feeds[f].isPremium) /\ BroadcastStart(f, data, isPremium)
  \/ BroadcastGotFeed(0)
  \/ BroadcastGotBlob(TRUE)
  \/ \E blobId \in 1..MaxReading : UpdateFeed("F1", blobId)

SpecHeartbeat == Init /\ [][NextHeartbeat]_vars
(***************************************************************************)
(* routes/iot.ts: the ingestion endpoints                                  *)
(***************************************************************************)

\* POST /feeds/:feedId/update is received with data (lines 19-45): the
\* handler starts the feed lookup
IngestReceive(feedId) ==
  /\ Quiet
  /\ ingest.pc = "idle"
  /\ ingest.count < MaxReading
  /\ ingest' = [ingest EXCEPT !.pc = "lookup", !.feedId = feedId,
                              !.reading = ingest.count + 1,
                              !.count = ingest.count + 1]
  /\ UNCHANGED <<ledgerVars, envVars, hubVars, blobs, sensor, sideVars>>

\* The race of getDataFeed with the 3 s timeout has settled (lines 47-84):
\* with the feed, with null, or with the timeout or an error, which the
\* catch of line 71 turns into an upload without encryption
IngestLookup(outcome) ==
  /\ Quiet
  /\ ingest.pc = "lookup"
  /\ LET feed == IF outcome = "feed" THEN getDataFeed(ingest.feedId, 0) ELSE Null
         feedIsPremium == feed # Null /\ feed.isPremium
     IN ingest' = [ingest EXCEPT !.pc = "upload", !.feedIsPremium = feedIsPremium,
                                 !.encrypt = feedIsPremium]
  /\ UNCHANGED <<ledgerVars, envVars, hubVars, blobs, sensor, sideVars>>

\* An uploadData that uploads the reading as it is when Seal is not
\* configured or encryptData throws
uploadBytesFallsBack(encrypt, feedId, sealOk) ==
  IF encrypt /\ feedId = None THEN "none"
  ELSE IF encrypt /\ sealConfigured /\ sealOk THEN "sealed" ELSE "plain"

\* WalrusService.uploadData, lines 34-93: the body of the axios.put request
\* to the publisher -- the Seal ciphertext, the reading as it is, or no
\* request ("none") when the function has thrown before it
uploadBytes(encrypt, feedId, sealOk) ==
  IF encrypt /\ (feedId = None \/ ~sealConfigured \/ ~sealOk) THEN "none"
  ELSE IF encrypt THEN "sealed" ELSE "plain"

\* WalrusService.uploadData(data, encrypt, feedId): with encrypt it throws
\* unless a feed id is given, Seal is configured and encryptData succeeds,
\* and so does a failed upload; otherwise what is stored is the ciphertext
\* if encrypt, the reading as it is if not
uploadData(encrypt, feedId, sealOk, uploadOk) ==
  IF uploadBytes(encrypt, feedId, sealOk) = "none" \/ ~uploadOk
    THEN "throw"
    ELSE uploadBytes(encrypt, feedId, sealOk)

\* The blob store after the upload of a reading of feedId under blobId
Stored(blobId, feedId, uploaded) ==
  IF uploaded = "throw" THEN blobs
  ELSE [blobs EXCEPT ![blobId] = [feedId |-> feedId, sealed |-> uploaded = "sealed"]]

\* uploadData has answered (lines 86-96): a throw ends the request with
\* status 500 (line 194), otherwise broadcastDataUpdate is called with the
\* reading and awaited
IngestUploaded(sealOk, uploadOk) ==
  /\ Quiet
  /\ ingest.pc = "upload"
  /\ LET uploaded == uploadData(ingest.encrypt, ingest.feedId, sealOk, uploadOk)
     IN /\ blobs' = Stored(ingest.reading, ingest.feedId, uploaded)
        /\ IF uploaded = "throw"
             THEN /\ ingest' = [IdleIngest EXCEPT !.count = ingest.count,
                                                  !.pending = ingest.pending]
                  /\ UNCHANGED <<ledgerVars, envVars, hubVars>>
             ELSE /\ ingest' = [ingest EXCEPT !.pc = "broadcast"]
                  /\ BroadcastCall(ingest.feedId, ingest.reading, ingest.feedIsPremium)
  /\ UNCHANGED <<sensor, sideVars>>

\* broadcastDataUpdate has returned or thrown (lines 91-105): the response
\* is sent and the on-chain update is left to the async block of line 108
IngestResponded ==
  /\ Quiet
  /\ ingest.pc = "broadcast"
  /\ bc.pc = "idle"
  /\ ingest' = [IdleIngest EXCEPT !.count = ingest.count,
                                  !.pending = ingest.pending \cup {ingest.reading}]
  /\ UNCHANGED <<ledgerVars, envVars, hubVars, blobs, sensor, sideVars>>

\* The async block of an accepted update has run (lines 108-193):
\* updateFeedData(feedId, blobId) sets the blob id of the feed, unless the
\* block threw before or in it
IngestChain(blobId, throws) ==
  /\ Quiet
  /\ blobId \in ingest.pending
  /\ ingest' = [ingest EXCEPT !.pending = @ \ {blobId}]
  /\ feeds' = IF throws THEN feeds
              ELSE [feeds EXCEPT ![blobs[blobId].feedId].walrusBlobId = blobId]
  /\ UNCHANGED <<epoch, subscriptions, envVars, hubVars, blobs, sensor, sideVars>>

\* POST /update (lines 238-341): the reading is uploaded without encryption
\* and, with a provider in the body, updateFeedData is called; its throw is
\* caught
LegacyUpdate(feedId, provider, uploadOk, throws) ==
  /\ Quiet
  /\ ingest.count < MaxReading
  /\ ingest' = [ingest EXCEPT !.count = @ + 1]
  /\ blobs' = Stored(ingest.count + 1, feedId, uploadData(FALSE, None, TRUE, uploadOk))
  /\ feeds' = IF ~uploadOk \/ ~provider \/ throws THEN feeds
              ELSE [feeds EXCEPT ![feedId].walrusBlobId = ingest.count + 1]
  /\ UNCHANGED <<epoch, subscriptions, envVars, hubVars, sensor, sideVars>>

\* Updates of the premium feed F1 by both endpoints while c1 subscribes to
\* it without a session key
NextIngest ==
  \/ Return
  \/ Connect("c1")
  \/ \E r \in ReqIds : SubscribeReceive(r, "c1", Legacy("F1", "S1", "A", None))
  \/ \E r \in ReqIds : SubscribeAuthorize(r, NetAllUp)
  \/ \E r \in ReqIds : SubscribeInitFeed(r, 0)
  \/ \E r \in ReqIds : SubscribeInitData(r, TRUE)
  \/ IngestReceive("F1")
  \/ \E outcome \in {"feed", "null", "failed"} : IngestLookup(outcome)
  \/ \E sealOk, uploadOk \in BOOLEAN : IngestUploaded(sealOk, uploadOk)
  \/ BroadcastGotFeed(0)
  \/ BroadcastGotBlob(TRUE)
  \/ IngestResponded
  \/ \E blobId \in 1..MaxReading, throws \in BOOLEAN : IngestChain(blobId, throws)
  \/ \E provider, uploadOk, throws \in BOOLEAN :
       LegacyUpdate("F1", provider, uploadOk, throws)

SpecIngest == Init /\ [][NextIngest]_vars

(***************************************************************************)
(* index.ts: ws.on('message') with a message that is no subscribe and no   *)
(* unsubscribe (lines 116-120 and 288-315)                                 *)
(***************************************************************************)

\* Texts a client may send: no JSON, the JSON null, and objects whose type
\* the hub does not know or that have none
OtherTexts == {"{", "null", "{\"type\":\"ping\"}", "{}"}

\* JSON.parse(message.toString()) (line 118) followed by the reads of
\* data.type (lines 120 and 288): the type read, or the error thrown
ParseType(text) ==
  IF text = "{" THEN [thrown |-> "Unexpected end of JSON input", type |-> None]
  ELSE IF text = "null"
    THEN [thrown |-> "Cannot read properties of null (reading 'type')", type |-> None]
  ELSE IF text = "{\"type\":\"ping\"}" THEN [thrown |-> None, type |-> "ping"]
  ELSE [thrown |-> None, type |-> None]

\* The handler runs to its end at once: a throw is answered by the catch of
\* lines 297-313, a type that is neither 'subscribe' nor 'unsubscribe'
\* matches no branch
OtherMessage(c, text) ==
  /\ Quiet
  /\ conns[c].status = "open"
  /\ LET parsed == ParseType(text)
     IN done' = [NoDone EXCEPT
                   !.kind = "other",
                   !.req = [FreeReq EXCEPT
                              !.pc = "done", !.conn = c,
                              !.sent = IF parsed.thrown # None
                                         THEN <<ErrorMsg(parsed.thrown)>> ELSE <<>>],
                   !.before = conns[c]]
  /\ UNCHANGED <<ledgerVars, ingestVars, envVars, conns, reqs, bc, cache>>

\* Clients that subscribe, unsubscribe and send other messages
NextProtocol ==
  \/ Return
  \/ \E c \in Conns : Connect(c)
  \/ \E c \in Conns : Close(c)
  \/ \E r \in ReqIds, c \in Conns : \E msg \in HubMsgs(c) : SubscribeReceive(r, c, msg)
  \/ Subscribe
  \/ \E c \in Conns : Unsubscribe(c)
  \/ \E c \in Conns, text \in OtherTexts : OtherMessage(c, text)

SpecProtocol == Init /\ [][NextProtocol]_vars

(***************************************************************************)
(* routes/data.ts: the response cache while feeds are updated              *)
(***************************************************************************)

\* NodeCache drops the entry of a feed when its stdTTL has passed (line 10)
CacheExpire(feedId) ==
  /\ Quiet
  /\ cache[feedId] # 0
  /\ cache' = [cache EXCEPT ![feedId] = 0]
  /\ UNCHANGED <<ledgerVars, ingestVars, envVars, conns, reqs, bc, done>>

\* Reads of both feeds by REST while their blobs are replaced
NextCache ==
  \/ Return
  \/ \E q \in DataQueries, net \in NetOutcomes, fails \in FailCounts,
        fetchOk \in BOOLEAN :
       GetData(q.feedId, q.query, q.key, net, fails, fetchOk)
  \/ \E f \in Feeds, blobId \in 1..MaxReading : UpdateFeed(f, blobId)
  \/ \E f \in Feeds : CacheExpire(f)

SpecCache == Init /\ [][NextCache]_vars

(***************************************************************************)
(* seal_access.move as decryptData reaches it, for every state of the feed *)
(* and of the subscription                                                 *)
(***************************************************************************)

\* c1 subscribes to F1 with subscription S1 as A or as B, with a session
\* key of A or of B, and is sent the updates of the feed
NextPolicy ==
  \/ Return
  \/ Connect("c1")
  \/ \E r \in ReqIds, consumer \in Addresses, sk \in SessionKeyIds :
       SubscribeReceive(r, "c1", Legacy("F1", "S1", consumer, sk))
  \/ \E r \in ReqIds, net \in NetOutcomes : SubscribeAuthorize(r, net)
  \/ \E r \in ReqIds : SubscribeInitFeed(r, 0)
  \/ \E r \in ReqIds : SubscribeInitData(r, TRUE)
  \/ BroadcastStart("F1", 1, TRUE)
  \/ BroadcastGotFeed(0)
  \/ BroadcastGotBlob(TRUE)
  \/ \E env \in DecryptEnvs : BroadcastDecrypted("c1", env)
  \/ AdvanceEpoch

SpecPolicy == InitAccess /\ [][NextPolicy]_vars

(***************************************************************************)
(* suisense sensor server (suisense-skill/src/config.ts lines 36-150),     *)
(* with DATA_FEED_ID left empty: no on-chain update follows the upload     *)
(***************************************************************************)

\* const MAX_READINGS = 100
MAX_READINGS == 100

\* A list that is never shortened
StoreNoPop(list, reading) == <<reading>> \o list

\* readings.unshift(reading); if (readings.length > MAX_READINGS)
\* readings.pop() (lines 87-88)
Store(list, reading) ==
  LET unshifted == <<reading>> \o list
  IN IF Len(unshifted) > MAX_READINGS
       THEN SubSeq(unshifted, 1, Len(unshifted) - 1)
       ELSE unshifted

\* Array.prototype.slice(0, end)
Slice(list, end) == SubSeq(list, 1, IF Len(list) < end THEN Len(list) ELSE end)

\* No GET is being answered
SensorQuiet == sensor.res.kind = "none"

\* POST /api/sensor/update with data (lines 55-77): the upload starts
SensorReceive ==
  /\ SensorQuiet
  /\ sensor.received < MaxSensorUpdates
  /\ sensor.uploading < MaxInFlight
  /\ sensor' = [sensor EXCEPT !.received = @ + 1, !.uploading = @ + 1]
  /\ UNCHANGED <<ledgerVars, envVars, hubVars, blobs, ingest, sideVars>>

\* uploadData has answered (lines 78-111): the reading is stored with the
\* blob id returned, or the throw ends the request with status 500
SensorUploaded(uploadOk) ==
  /\ SensorQuiet
  /\ sensor.uploading > 0
  /\ sensor' =
       IF uploadOk
         THEN [sensor EXCEPT
                 !.uploading = @ - 1, !.stored = @ + 1,
                 !.readings = Store(@, [blobId |-> sensor.stored + 1])]
         ELSE [sensor EXCEPT !.uploading = @ - 1]
  /\ UNCHANGED <<ledgerVars, envVars, hubVars, blobs, ingest, sideVars>>

\* GET /api/sensor/latest (lines 114-120): data is readings[0], or null
SensorLatest ==
  /\ SensorQuiet
  /\ sensor' = [sensor EXCEPT !.res = [kind |-> "latest", data |-> Slice(sensor.readings, 1)]]
  /\ UNCHANGED <<ledgerVars, envVars, hubVars, blobs, ingest, sideVars>>

\* GET /api/sensor/readings (lines 123-125)
SensorReadings ==
  /\ SensorQuiet
  /\ sensor' = [sensor EXCEPT !.res = [kind |-> "readings",
                                       data |-> Slice(sensor.readings, 50)]]
  /\ UNCHANGED <<ledgerVars, envVars, hubVars, blobs, ingest, sideVars>>

\* The response has been sent
SensorReturn ==
  /\ ~SensorQuiet
  /\ sensor' = [sensor EXCEPT !.res = IdleSensor.res]
  /\ UNCHANGED <<ledgerVars, envVars, hubVars, blobs, ingest, sideVars>>

NextSensor ==
  \/ SensorReceive
  \/ \E uploadOk \in BOOLEAN : SensorUploaded(uploadOk)
  \/ SensorLatest
  \/ SensorReadings
  \/ SensorReturn

SpecSensor == Init /\ [][NextSensor]_vars


(***************************************************************************)
(* A connection that subscribes again while a broadcast decrypts for it:   *)
(* A and B both hold a subscription to the premium feed F1; the one of A, *)
(* which API key K1 names, ends with epoch 0                               *)
(***************************************************************************)

InitRebind ==
  /\ epoch = 0
  /\ feeds = [F1 |-> [isPremium |-> TRUE, isActive |-> TRUE, walrusBlobId |-> 1],
              F2 |-> [isPremium |-> FALSE, isActive |-> TRUE, walrusBlobId |-> 1]]
  /\ subscriptions =
       [S1 |-> [consumer |-> "A", feedId |-> "F1", isActive |-> TRUE,
                expiryEpoch |-> 0],
        S2 |-> [consumer |-> "B", feedId |-> "F1", isActive |-> TRUE,
                expiryEpoch |-> MaxEpoch]]
  /\ InitEnv
  /\ conns = [c \in Conns |-> NewClient]
  /\ reqs = [r \in RaceIds |-> FreeReq]
  /\ bc = IdleBroadcast
  /\ cache = [f \in Feeds |-> 0]
  /\ done = NoDone
  /\ InitIngest

\* A connection subscribes as A with A's session key, as B without one,
\* with A's API key K1 and no session key, or with that API key together
\* with the subscription of B
RebindMsgs ==
  {Legacy("F1", "S1", "A", "KA"), Legacy("F1", "S2", "B", None), WithKey("F1", "K1", None),
   [Legacy("F1", "S2", "B", None) EXCEPT !.apiKey = "K1"]}

NextRebind ==
  \/ Return
  \/ Connect("c1")
  \/ \E r \in RaceIds, msg \in RebindMsgs : SubscribeReceive(r, "c1", msg)
  \/ \E r \in RaceIds : SubscribeAuthorize(r, NetAllUp)
  \/ \E r \in RaceIds : SubscribeGotStored(r, FALSE)
  \/ \E r \in RaceIds : SubscribeInitFeed(r, 0)
  \/ \E r \in RaceIds : SubscribeInitData(r, TRUE)
  \/ BroadcastStart("F1", 1, TRUE)
  \/ BroadcastGotFeed(0)
  \/ BroadcastGotBlob(TRUE)
  \/ \E env \in DecryptEnvs : BroadcastDecrypted("c1", env)
  \/ AdvanceEpoch

SpecRebind == InitRebind /\ [][NextRebind]_vars

(***************************************************************************)
(* sui.service.ts getDataFeed and getSubscription, attempt by attempt      *)
(***************************************************************************)

\* An id under which the ledger holds no object
AbsentId == "X0"

\* object.data.content.fields as getObject answers them; Null when the
\* answer has no content
ObjectFields(kind, id) ==
  IF kind = "feed" /\ id \in Feeds THEN feeds[id]
  ELSE IF kind = "subscription" /\ id \in SubIds THEN subscriptions[id]
  ELSE Null

\* getDataFeed(id) or getSubscription(id) is called: the loop starts with
\* attempt = 1 and makes its first getObject request
ReadCall(kind, id) ==
  /\ read.pc = "idle"
  /\ read.calls < MaxReads
  /\ read' = [read EXCEPT !.pc = "request", !.kind = kind, !.id = id, !.attempt = 1,
                          !.requests = 1, !.calls = @ + 1]
  /\ UNCHANGED <<ledgerVars, envVars, hubVars, blobs, ingest, sensor, hook>>

\* A loop that retries once more than maxRetries times
ReadAnsweredRetriesAgain(throws) ==
  /\ read.pc = "request"
  /\ read' = IF throws
               THEN IF read.attempt <= maxRetries + 1
                      THEN [read EXCEPT !.pc = "delay", !.thrown = @ + 1]
                      ELSE [read EXCEPT !.pc = "returned", !.thrown = @ + 1,
                                        !.result = Null]
               ELSE [read EXCEPT !.pc = "returned",
                                 !.result = ObjectFields(read.kind, read.id)]
  /\ UNCHANGED <<ledgerVars, envVars, hubVars, blobs, ingest, sensor, hook>>

\* The getObject request of this attempt settles (lines 285-326 and
\* 340-373): an answer with content returns the object, an answer without
\* returns null, a throw is caught and leads to the delay when
\* attempt <= maxRetries and to null otherwise
ReadAnswered(throws) ==
  /\ read.pc = "request"
  /\ read' = IF throws
               THEN IF read.attempt <= maxRetries
                      THEN [read EXCEPT !.pc = "delay", !.thrown = @ + 1]
                      ELSE [read EXCEPT !.pc = "returned", !.thrown = @ + 1,
                                        !.result = Null]
               ELSE [read EXCEPT !.pc = "returned",
                                 !.result = ObjectFields(read.kind, read.id)]
  /\ UNCHANGED <<ledgerVars, envVars, hubVars, blobs, ingest, sensor, hook>>

\* The delay of lines 320-321 is over: `continue` starts the next attempt
ReadDelayed ==
  /\ read.pc = "delay"
  /\ read' = [read EXCEPT !.pc = "request", !.attempt = @ + 1, !.requests = @ + 1]
  /\ UNCHANGED <<ledgerVars, envVars, hubVars, blobs, ingest, sensor, hook>>

\* The caller takes the result
ReadReturn ==
  /\ read.pc = "returned"
  /\ read' = [IdleRead EXCEPT !.calls = read.calls]
  /\ UNCHANGED <<ledgerVars, envVars, hubVars, blobs, ingest, sensor, hook>>

\* The steps of the loop that are not the caller's
ReadStep == (\E throws \in BOOLEAN : ReadAnswered(throws)) \/ ReadDelayed

NextRetry ==
  \/ \E id \in Feeds \cup {AbsentId} : ReadCall("feed", id)
  \/ \E id \in SubIds \cup {AbsentId} : ReadCall("subscription", id)
  \/ \E throws \in BOOLEAN : ReadAnswered(throws)
  \/ ReadDelayed
  \/ ReadReturn
  \/ AdvanceEpoch
  \/ UpdateFeed("F1", 1)

\* Every getObject request settles and every delay timer fires
SpecRetry == Init /\ [][NextRetry]_vars /\ WF_vars(ReadStep)

(***************************************************************************)
(* frontend/src/hooks/useWebSocket.ts: the hook of one component, with a   *)
(* feedId that is not empty                                                *)
(***************************************************************************)

\* connect() (lines 44-50) as the closure of a render with `enabled`: a new
\* WebSocket is opened unless the hook is disabled or the socket of wsRef is
\* OPEN
connect(h, enabled) ==
  IF ~enabled THEN h
  ELSE IF h.wsRef # 0 /\ h.sockets[h.wsRef].readyState = "open" THEN h
  ELSE [h EXCEPT !.opened = @ + 1,
                 !.wsRef = h.opened + 1,
                 !.sockets[h.opened + 1] =
                    [readyState |-> "connecting", enabled |-> enabled]]

\* disconnect() (lines 149-166): the timer of reconnectTimeoutRef is
\* cleared, the socket of wsRef is closed and both refs are set to null
disconnect(h) ==
  [h EXCEPT !.timers = @ \ {h.timerRef},
            !.timerRef = 0,
            !.wsRef = 0,
            !.sockets = IF h.wsRef # 0 /\ @[h.wsRef].readyState \in {"connecting", "open"}
                          THEN [@ EXCEPT ![h.wsRef].readyState = "closing"]
                          ELSE @,
            !.disconnected = TRUE]

\* ws.onclose of socket s (lines 132-142): the reconnect timer is set when
\* the closure's `enabled` is true
onclose(h, s) ==
  IF h.sockets[s].enabled
    THEN [h EXCEPT !.sockets[s].readyState = "closed", !.timers = @ \cup {s},
                   !.timerRef = s]
    ELSE [h EXCEPT !.sockets[s].readyState = "closed"]

\* The effect of lines 168-178 runs for a render with `enabled`
effect(h, enabled) ==
  IF enabled THEN [connect(h, enabled) EXCEPT !.disconnected = FALSE] ELSE disconnect(h)

\* The component is mounted
HookMount(enabled) ==
  /\ ~hook.mounted
  /\ hook.opened = 0
  /\ hook' = effect([hook EXCEPT !.mounted = TRUE, !.enabled = enabled], enabled)
  /\ UNCHANGED <<ledgerVars, envVars, hubVars, blobs, ingest, sensor, read>>

\* A render changes `enabled`: the cleanup of the last effect runs, then the
\* effect
HookRender ==
  /\ hook.mounted
  /\ hook.opened < MaxSockets
  /\ hook' = effect([disconnect(hook) EXCEPT !.enabled = ~hook.enabled], ~hook.enabled)
  /\ UNCHANGED <<ledgerVars, envVars, hubVars, blobs, ingest, sensor, read>>

\* The component is unmounted: the cleanup of the effect runs
HookUnmount ==
  /\ hook.mounted
  /\ hook' = [disconnect(hook) EXCEPT !.mounted = FALSE]
  /\ UNCHANGED <<ledgerVars, envVars, hubVars, blobs, ingest, sensor, read>>

\* The component calls the connect it was returned
HookConnect ==
  /\ hook.mounted
  /\ hook.opened < MaxSockets
  /\ hook' = [connect(hook, hook.enabled) EXCEPT !.disconnected = ~hook.enabled /\ @]
  /\ UNCHANGED <<ledgerVars, envVars, hubVars, blobs, ingest, sensor, read>>

\* The component calls the disconnect it was returned
HookDisconnect ==
  /\ hook.mounted
  /\ hook' = disconnect(hook)
  /\ UNCHANGED <<ledgerVars, envVars, hubVars, blobs, ingest, sensor, read>>

\* The connection of socket s is established
SocketOpens(s) ==
  /\ hook.sockets[s].readyState = "connecting"
  /\ hook' = [hook EXCEPT !.sockets[s].readyState = "open"]
  /\ UNCHANGED <<ledgerVars, envVars, hubVars, blobs, ingest, sensor, read>>

\* The close event of socket s: the connection failed, the server closed it,
\* or close() was called on it
SocketCloses(s) ==
  /\ hook.sockets[s].readyState \in {"connecting", "open", "closing"}
  /\ hook' = onclose(hook, s)
  /\ UNCHANGED <<ledgerVars, envVars, hubVars, blobs, ingest, sensor, read>>

\* The reconnect timer set by the onclose of socket s fires: connect() of
\* that socket's closure
TimerFires(s) ==
  /\ s \in hook.timers
  /\ hook.opened < MaxSockets
  /\ hook' = connect([hook EXCEPT !.timers = @ \ {s}], hook.sockets[s].enabled)
  /\ UNCHANGED <<ledgerVars, envVars, hubVars, blobs, ingest, sensor, read>>

NextHook ==
  \/ \E enabled \in BOOLEAN : HookMount(enabled)
  \/ HookRender
  \/ HookUnmount
  \/ HookConnect
  \/ HookDisconnect
  \/ \E s \in 1..MaxSockets : SocketOpens(s)
  \/ \E s \in 1..MaxSockets : SocketCloses(s)
  \/ \E s \in 1..MaxSockets : TimerFires(s)

SpecHook == Init /\ [][NextHook]_vars

(***************************************************************************)
(* Properties                                                              *)
(***************************************************************************)

\* The data messages without the encrypted marker among those sent
Plaintexts(sent) ==
  {i \in 1..Len(sent) : sent[i].type = "data" /\ ~sent[i].encrypted}

\* C1: in a broadcast made for a premium feed, a connection is sent a data
\* message without the encrypted marker only if decryptData succeeded for
\* that connection in the same broadcast; so none is sent when the feed
\* lookup returns nothing, the feed has no blob id, the fetch throws or the
\* fetched value is no ciphertext.
C1_PlaintextOnlyAfterDecrypt ==
  (done.kind = "broadcast" /\ done.bc.isPremium) =>
    \A c \in Conns : Plaintexts(done.bc.sent[c]) # {} => done.bc.decrypted[c]

\* The requests past their access decision: those being handled and the
\* one that has just ended
Decided ==
  {reqs[r] : r \in {q \in ReqIds : reqs[q].pc \notin {"free", "auth"}}}
  \cup (IF done.kind = "subscribe" THEN {done.req} ELSE {})

\* C2: a subscribe to feed F is granted, and a REST read of F passes the
\* access check, only on a subscription whose feedId is F -- with an API
\* key as with subscriptionId and consumer.
C2_GrantOnlyOnSubscriptionOfFeed ==
  /\ \A req \in Decided :
       req.granted => subscriptions[req.resolvedSubscriptionId].feedId = req.feedId
  /\ (done.kind = "read" /\ done.res.authorisedBy # None) =>
       subscriptions[done.res.authorisedBy].feedId = done.res.feedId

\* C3: the access decision of subscribe agrees with the ledger's policy
\* can_decrypt for every state of the feed and of the subscription, every
\* consumer and every epoch: a request decided on subscription S for feed F
\* is granted exactly when can_decrypt holds of F, S and the consumer.
C3_OracleAgreesWithPolicy ==
  \A req \in Decided :
    req.resolvedSubscriptionId \in SubIds =>
      (req.granted <=>
         can_decrypt(req.feedId, feeds[req.feedId],
                     subscriptions[req.resolvedSubscriptionId], req.consumerAddress,
                     epoch))

\* The error messages among those sent
Errors(sent) == {i \in 1..Len(sent) : sent[i].type = "error"}

\* The fields of WSClient that subscribe and unsubscribe write
Binding(client) ==
  <<client.feedId, client.subscriptionId, client.apiKeyId, client.consumerAddress,
    client.sessionKey>>

\* C4: when the read of the subscription or of the epoch fails on the path
\* that decides a subscribe request, the request is not granted: it ends at
\* once, the client is left as it was, and an open connection is sent the
\* access-denied error.
C4_FailedReadFailsClosed ==
  \A req \in Decided :
    req.readFailed =>
      /\ ~req.granted
      /\ req.pc = "done"
      /\ Binding(conns[req.conn]) = Binding(done.before)
      /\ conns[req.conn].status = "open" => req.sent = <<ErrorMsg("denied")>>

\* A request that every read would have granted is refused because a read
\* failed
C4_Witness ==
  /\ done.kind = "subscribe"
  /\ done.req.readFailed
  /\ Authorize(done.req, NetAllUp).hasAccess
  /\ done.req.sent = <<ErrorMsg("denied")>>

\* C5: a subscribe request that is denied, for want of access or for a
\* database error, leaves feedId, subscriptionId, apiKeyId, consumerAddress
\* and sessionKey of the client as they were, and sends one error message
\* (none to a closed socket) and no other message.
C5_DeniedSubscribeChangesNothing ==
  (done.kind = "subscribe" /\ ~done.req.granted) =>
    /\ Binding(conns[done.req.conn]) = Binding(done.before)
    /\ Errors(done.req.sent) = 1..Len(done.req.sent)
    /\ Len(done.req.sent) <= 1
    /\ conns[done.req.conn].status = "open" => Len(done.req.sent) = 1

\* A client bound to a feed and holding a session key is refused another
\* feed, asked for with another session key
C5_Witness ==
  /\ done.kind = "subscribe"
  /\ ~done.req.granted
  /\ done.before.feedId \notin {None, done.req.feedId}
  /\ done.before.sessionKey # None
  /\ done.req.sessionKey \notin {None, done.before.sessionKey}
  /\ Len(done.req.sent) = 1

\* C7: unsubscribe is idempotent and so is a subscribe to the feed the client
\* is bound to: unsubscribe sends no error, leaves the client unbound, and
\* on an unbound client changes nothing; a granted subscribe to the feed the
\* client is bound to sends no error and leaves it bound to that feed.
C7_ResubscribeSendsNoError ==
  /\ done.kind = "unsubscribe" =>
       /\ Errors(done.req.sent) = {}
       /\ conns[done.req.conn].feedId = None
       /\ done.before.feedId = None =>
            Binding(conns[done.req.conn]) = Binding(done.before)
  /\ (done.kind = "subscribe" /\ done.req.granted
        /\ done.req.oldFeed = done.req.feedId) =>
       /\ Errors(done.req.sent) = {}
       /\ done.before.feedId = done.req.feedId =>
            conns[done.req.conn].feedId = done.req.feedId

\* C6: a client is bound to the feed of its last granted subscribe and to no
\* other -- a granted subscribe replaces the binding the client had -- so it
\* is a target of at most one feed; and a broadcast of a feed sends to a
\* client that kept its binding and its socket throughout exactly when the
\* client is bound to that feed: after a rebinding from F to G nothing is
\* sent to it for F, and updates of G are.
C6_BindingReplaced ==
  /\ \A c \in Conns :
       /\ conns[c].feedId = conns[c].lastGranted
       /\ Cardinality({f \in Feeds : IsTarget(conns[c], f)}) <= 1
  /\ done.kind = "broadcast" =>
       \A c \in Conns :
         done.bc.stable[c] => (done.bc.sent[c] # <<>> <=> done.bc.target[c])

\* A client that was rebound from F to G is sent nothing by a broadcast of
\* F, which the other client, bound to F, is sent
C6_Witness ==
  /\ done.kind = "broadcast"
  /\ \E c, d \in Conns :
       /\ conns[c].status = "open"
       /\ conns[c].replaced = done.bc.feedId
       /\ conns[c].feedId \notin {None, done.bc.feedId}
       /\ done.bc.sent[c] = <<>>
       /\ done.bc.target[d]
       /\ done.bc.sent[d] # <<>>

\* C8: a broadcast for feed F sends exactly one message, a data message of
\* F, to every connection that is bound to F and open from the start of the
\* call to its end -- whichever fan-out runs and whatever decryptData
\* answers.
C8_ExactlyOneDataMessage ==
  done.kind = "broadcast" =>
    \A c \in Conns :
      (done.bc.target[c] /\ done.bc.stable[c]) =>
        /\ Len(done.bc.sent[c]) = 1
        /\ done.bc.sent[c][1].type = "data"
        /\ done.bc.sent[c][1].feedId = done.bc.feedId

\* A premium broadcast decrypts for one client and not for the other, and
\* each is sent one message
C8_Witness ==
  /\ done.kind = "broadcast"
  /\ done.bc.fanout = "premium"
  /\ \E c, d \in Conns :
       /\ done.bc.target[c] /\ done.bc.stable[c] /\ done.bc.decrypted[c]
       /\ done.bc.target[d] /\ done.bc.stable[d] /\ ~done.bc.decrypted[d]
       /\ Len(done.bc.sent[c]) = 1
       /\ Len(done.bc.sent[d]) = 1

\* C9: a broadcast made for a feed that is not premium sends every open
\* connection bound to the feed the same message: the reading passed to the
\* call, without the encrypted marker.
C9_SamePlaintextToAll ==
  (done.kind = "broadcast" /\ ~done.bc.isPremium) =>
    \A c \in Conns :
      done.bc.target[c] =>
        done.bc.sent[c] = <<PlainDataMsg(done.bc.feedId, done.bc.data)>>

\* Two clients are bound to the public feed and are sent its reading
C9_Witness ==
  /\ done.kind = "broadcast"
  /\ ~done.bc.isPremium
  /\ ~feeds[done.bc.feedId].isPremium
  /\ \A c \in Conns : done.bc.target[c] /\ done.bc.sent[c] # <<>>

\* C10: once the ciphertext of a premium feed is fetched, every connection
\* that is bound and open throughout and for which decryptData did not
\* succeed -- it was not called, or it threw -- is sent one data message
\* with the encrypted marker and the ciphertext.
C10_CiphertextWhenNotDecrypted ==
  (done.kind = "broadcast" /\ done.bc.fanout = "premium") =>
    \A c \in Conns :
      (done.bc.target[c] /\ done.bc.stable[c] /\ ~done.bc.decrypted[c]) =>
        done.bc.sent[c] = <<EncryptedDataMsg(done.bc.feedId, done.bc.blob)>>

\* decryptData throws for a client with a session key, the other client has
\* none, and both are sent the ciphertext
C10_Witness ==
  /\ done.kind = "broadcast"
  /\ done.bc.fanout = "premium"
  /\ \E c, d \in Conns :
       /\ done.bc.target[c] /\ done.bc.stable[c] /\ ~done.bc.decrypted[c]
       /\ WantsDecrypt(conns[c])
       /\ done.bc.target[d] /\ done.bc.stable[d] /\ conns[d].sessionKey = None
       /\ done.bc.sent[c] = <<EncryptedDataMsg(done.bc.feedId, done.bc.blob)>>
       /\ done.bc.sent[d] = <<EncryptedDataMsg(done.bc.feedId, done.bc.blob)>>


\* What the premium fan-out of b owes client c: the plaintext decryptData
\* returned for c, or the ciphertext
Owed(b, c) ==
  IF b.decrypted[c] THEN PlainDataMsg(b.feedId, b.blob)
  ELSE EncryptedDataMsg(b.feedId, b.blob)

\* C11: in a premium fan-out, a client b that is bound and open throughout
\* is sent exactly the one message its own callback owes it, whatever
\* decryptData or clearSessionKey threw for another client a; and b is sent
\* it as soon as its own callback has ended, while a's decryptData or
\* clearSessionKey is still awaited.
C11_FailureOfOneLeavesOthers ==
  \A a, b \in Conns :
    a # b =>
      /\ ( /\ bc.pc = "decrypt"
           /\ bc.failure[a] # None \/ bc.st[a] # "none"
           /\ bc.target[b] /\ bc.stable[b] /\ bc.st[b] = "none" ) =>
           bc.sent[b] = <<Owed(bc, b)>>
      /\ ( /\ done.kind = "broadcast"
           /\ done.bc.failure[a] # None
           /\ done.bc.target[b] /\ done.bc.stable[b] ) =>
           done.bc.sent[b] = <<Owed(done.bc, b)>>

\* decryptData throws an expiry error for one client, whose session key is
\* cleared, and the other client is sent the plaintext
C11_Witness ==
  /\ done.kind = "broadcast"
  /\ \E a, b \in Conns :
       /\ a # b
       /\ done.bc.failure[a] = ErrLibraryExpired
       /\ done.bc.sent[a] = <<EncryptedDataMsg(done.bc.feedId, done.bc.blob)>>
       /\ done.bc.target[b] /\ done.bc.stable[b] /\ done.bc.decrypted[b]
       /\ done.bc.sent[b] = <<PlainDataMsg(done.bc.feedId, done.bc.blob)>>

\* C12: when decryptData fails for a client because its session key has
\* expired, the broadcast ends with the client's sessionKey unset and with
\* no stored session key for the client's API key.
C12_ExpiredKeyCleared ==
  done.kind = "broadcast" =>
    \A c \in Conns :
      (done.bc.failure[c] = ErrExpired /\ done.bc.target[c] /\ done.bc.stable[c]) =>
        /\ conns[c].sessionKey = None
        /\ conns[c].apiKeyId # None => sessionStore[conns[c].apiKeyId] = NoEntry

\* The errors of decryptData that do not report an expired session key:
\* the key is of another address, the key servers deny access or are not
\* reached, a library fails to parse or to decrypt
OtherFailures == {ErrMismatch, ErrNoAccess, ErrFetchKeys, ErrLibrary}

C14_OneDecryptPerIdentity ==
  \A a, b \in Conns :
    a # b =>
      /\ (bc.pc = "decrypt" /\ bc.st[a] = "decrypting" /\ bc.st[b] = "decrypting") =>
           bc.args[a] # bc.args[b]
      /\ ( /\ done.kind = "broadcast"
           /\ done.bc.fanout = "premium"
           /\ done.bc.target[a] /\ done.bc.stable[a]
           /\ done.bc.target[b] /\ done.bc.stable[b]
           /\ Binding(conns[a]) = Binding(conns[b]) ) =>
           done.bc.sent[a] = done.bc.sent[b]

\* C15: of two subscribe requests that offer different session keys for
\* one API key, the one that found no stored key while the other was
\* already about to store its own -- the one that reached the check second
\* -- does not leave its key in the store.
C15_FirstOfferWins ==
  \A r \in DOMAIN reqs :
    ( /\ reqs[r].sawOffer
      /\ reqs[r].pc \in {"initFeed", "initData"}
      /\ \A q \in DOMAIN reqs : reqs[q].pc # "store" ) =>
      ~( /\ EntryLive(sessionStore[reqs[r].apiKeyId])
         /\ sessionStore[reqs[r].apiKeyId].sessionKey = reqs[r].sessionKey )

AfterStep == IF done'.kind = "broadcast" THEN done'.bc ELSE bc'

\* The next update of a premium feed for client c: when the ciphertext is
\* fetched and c is bound, open and holds a session key, decryptData is
\* called with that session key; when decryptData succeeds -- the key is
\* valid and the key servers grant access -- c is sent the plaintext,
\* without the encrypted marker.
NextUpdateDecrypts(c) ==
  /\ ( /\ bc.pc = "blob"
       /\ AfterStep.fanout = "premium"
       /\ IsTarget(conns[c], bc.feedId)
       /\ conns[c].sessionKey # None
       /\ sealConfigured ) =>
       /\ AfterStep.st[c] = "decrypting"
       /\ AfterStep.args[c].sessionKey = conns[c].sessionKey
  /\ ( /\ bc.pc = "decrypt"
       /\ bc.st[c] = "decrypting"
       /\ AfterStep.decrypted[c] ) =>
       AfterStep.sent[c] = Send(bc.sent[c], c, PlainDataMsg(bc.feedId, bc.blob))

Broadcasts == {bc} \cup (IF done.kind = "broadcast" THEN {done.bc} ELSE {})

\* The step is a heartbeat tick: a client in the set is pinged or terminated
HeartbeatTicks ==
  \E d \in Conns :
    /\ conns[d].status = "open"
    /\ \/ ~conns[d].unanswered /\ conns'[d].unanswered
       \/ conns'[d].removedBy = "heartbeat"

\* C19: at a heartbeat tick a client in the set that has sent no pong since
\* the ping of the previous tick is terminated and removed from the set;
\* the heartbeat removes no other client, so none that answered its last
\* ping; and a broadcast sends nothing to a client the heartbeat had
\* removed when the call was made.
C19_HeartbeatRemovesSilentOnly ==
  [][\A c \in Conns :
       /\ (HeartbeatTicks /\ conns[c].status = "open" /\ conns[c].unanswered) =>
            conns'[c].status = "closed" /\ conns'[c].removedBy = "heartbeat"
       /\ (conns[c].status = "open" /\ conns'[c].removedBy = "heartbeat") =>
            conns[c].unanswered
       /\ \A b \in Broadcasts :
            (conns[c].removedBy = "heartbeat" /\ b.stable[c]) => b.sent[c] = <<>>
    ]_vars

\* The heartbeat has removed a client bound to a feed while the other
\* client, which answered its ping, is sent a broadcast of the feed
C19_Witness ==
  /\ done.kind = "broadcast"
  /\ \E c, d \in Conns :
       /\ conns[c].removedBy = "heartbeat"
       /\ conns[c].feedId = done.bc.feedId
       /\ done.bc.stable[c]
       /\ done.bc.sent[c] = <<>>
       /\ conns[d].status = "open"
       /\ ~conns[d].unanswered
       /\ done.bc.sent[d] # <<>>

\* C20: a client removed from the set by the close or the error of its
\* socket before a broadcast was called is sent nothing by the broadcast,
\* whatever feed it is bound to.
C20_RemovedIsNoTarget ==
  \A c \in Conns :
    \A b \in Broadcasts :
      (conns[c].status \in {"closed", "errored"} /\ b.stable[c]) => b.sent[c] = <<>>

\* A client whose socket had an error and is still open is sent nothing by
\* a broadcast of its feed, which the other client is sent
C20_Witness ==
  /\ done.kind = "broadcast"
  /\ \E c, d \in Conns :
       /\ conns[c].status = "errored"
       /\ conns[c].removedBy = "error"
       /\ conns[c].feedId = done.bc.feedId
       /\ done.bc.stable[c]
       /\ done.bc.sent[c] = <<>>
       /\ done.bc.sent[d] # <<>>

\* C21: when the feed lookup of a broadcast made for a premium feed returns
\* nothing although the feed has a blob, or the fetch of the blob throws,
\* the broadcast ends without sending a message to any client.
C21_UnavailableSkipsFanout ==
  [][( /\ bc.isPremium
       /\ \/ bc.pc = "feed" /\ feeds[bc.feedId].walrusBlobId # 0
          \/ bc.pc = "blob" /\ sealConfigured
       /\ done'.kind = "broadcast"
       /\ done'.bc.fanout = "plain" ) =>
       \A c \in Conns : done'.bc.sent[c] = <<>>
    ]_vars

\* C22: every blob that the ingestion endpoints have uploaded for a feed
\* that is premium on the ledger is Seal ciphertext
C22_PremiumBlobsSealed ==
  \A b \in DOMAIN blobs :
    (blobs[b].feedId # None /\ feeds[blobs[b].feedId].isPremium) => blobs[b].sealed

\* C28: when the broadcast that an update of a premium feed triggered has
\* fanned out ciphertext, it is the blob uploaded for that update
C28_BroadcastCarriesOwnBlob ==
  ( /\ done.kind = "broadcast"
    /\ ingest.pc = "broadcast"
    /\ ingest.feedIsPremium
    /\ done.bc.fanout = "premium" ) => done.bc.blob = ingest.reading

\* C23: a message that is unparseable or of a type that is neither
\* subscribe nor unsubscribe is answered with an error message, and the
\* connection stays open, registered and bound as it was
C23_UnprocessedAnsweredWithError ==
  [][done'.kind = "other" =>
       /\ Errors(done'.req.sent) # {}
       /\ conns' = conns
    ]_vars

\* C24: the cache never holds an entry for a premium feed, and a read of a
\* premium feed that is answered with data is answered with the ciphertext
\* of the feed's current blob, fetched for this read, and caches nothing
C24_PremiumNeverCached ==
  [][ /\ \A f \in Feeds : cache'[f] # 0 => ~feeds'[f].isPremium
      /\ ( /\ done'.kind = "read"
           /\ done'.res.status = 200
           /\ feeds[done'.res.feedId].isPremium ) =>
           /\ done'.res.encrypted
           /\ done'.res.data = feeds[done'.res.feedId].walrusBlobId
           /\ cache' = cache
    ]_vars

\* The premium feed has been read after its blob was replaced, while the
\* reading of the public feed is cached
C24_Witness ==
  /\ done.kind = "read"
  /\ done.res.status = 200
  /\ done.res.feedId = "F1"
  /\ done.res.encrypted
  /\ done.res.data = 2
  /\ cache["F2"] # 0

\* C29: an authorised read of a non-premium feed returns the content of
\* the blob the feed refers to at the time of the read
C29_ReadReturnsCurrentBlob ==
  [][ ( /\ done'.kind = "read"
        /\ done'.res.status = 200
        /\ ~feeds[done'.res.feedId].isPremium ) =>
        done'.res.data = feeds[done'.res.feedId].walrusBlobId
    ]_vars

\* Identities the key servers may be asked about: byte strings of up to two
\* bytes, 0 standing for a byte of the package id
Identities == {<<>>} \cup {<<a>> : a \in 0..2} \cup {<<a, b>> : a, b \in 0..2}

\* id is some bytes followed by the bytes of the feed id
HasSuffix(id, bytes) ==
  \E k \in 0..Len(id) : id = SubSeq(id, 1, k) \o bytes

\* C25: for every feed, subscription, sender and identity, seal_approve
\* succeeds exactly when the feed is active and premium, the subscription
\* is the sender's, active, not past its expiry epoch and for this feed,
\* and the identity ends with the feed id; otherwise it aborts with
\* ENoAccess.  check_policy implies can_decrypt.
C25_SealApproveIffPolicy ==
  \A f \in Feeds, s \in SubIds, sender \in Addresses, id \in Identities :
    LET feed == feeds[f]
        subscription == subscriptions[s]
        code == seal_approve(id, f, feed, subscription, sender, epoch)
    IN /\ code \in {0, ENoAccess}
       /\ code = 0 <=>
            /\ feed.isActive
            /\ feed.isPremium
            /\ subscription.consumer = sender
            /\ subscription.isActive
            /\ epoch <= subscription.expiryEpoch
            /\ subscription.feedId = f
            /\ HasSuffix(id, to_bytes(f))
       /\ check_policy(id, f, feed, subscription, sender, epoch) =>
            can_decrypt(f, feed, subscription, sender, epoch)

\* The key servers have approved a decryption for B in epoch 1
C25_Witness ==
  /\ done.kind = "broadcast"
  /\ done.bc.decrypted["c1"]
  /\ subscriptions["S1"].consumer = "B"
  /\ epoch = 1

\* C30: a decryptData call whose ciphertext carries the identity of another
\* feed than the one given fails without calling fetchKeys, whatever the
\* key servers and the libraries would do
C30_MismatchNeverFetches ==
  \A c \in Conns, env \in DecryptEnvs :
    ( /\ bc.pc = "decrypt"
      /\ bc.st[c] = "decrypting"
      /\ sealConfigured
      /\ env.parseOk
      /\ env.sealId # bc.feedId ) =>
      LET a == bc.args[c]
          res == decryptData(bc.blob, bc.feedId, a.subscriptionId, a.sessionKey,
                             a.consumerAddress, env)
      IN ~res.ok /\ ~res.fetched

\* The subscription object as checkAccess reads it, when it can be read
Readable(subscriptionId, fails) == getSubscription(subscriptionId, fails) # Null

\* C27 as stated: checkAccess answers true exactly when the subscription
\* can be read, is the consumer's, is active and the ledger epoch is not
\* past its expiry epoch
C27_AccessIffValid ==
  \A s \in SubIds, consumer \in Addresses, fails \in FailCounts, epochThrows \in BOOLEAN :
    checkAccess(s, consumer, fails, epochThrows) <=>
      /\ Readable(s, fails)
      /\ subscriptions[s].consumer = consumer
      /\ subscriptions[s].isActive
      /\ epoch <= subscriptions[s].expiryEpoch

\* C27 amended: checkAccess answers true exactly when the subscription and
\* the ledger epoch can be read, the subscription is the consumer's and
\* active, and the epoch is not past the expiry epoch: access is granted
\* in the expiry epoch and refused in the next one
C27_AccessIffValidAndRead ==
  \A s \in SubIds, consumer \in Addresses, fails \in FailCounts, epochThrows \in BOOLEAN :
    /\ checkAccess(s, consumer, fails, epochThrows) <=>
         /\ Readable(s, fails)
         /\ ~epochThrows
         /\ subscriptions[s].consumer = consumer
         /\ subscriptions[s].isActive
         /\ epoch <= subscriptions[s].expiryEpoch
    /\ ( /\ Readable(s, fails) /\ ~epochThrows
         /\ subscriptions[s].consumer = consumer /\ subscriptions[s].isActive ) =>
         /\ epoch = subscriptions[s].expiryEpoch =>
              checkAccess(s, consumer, fails, epochThrows)
         /\ epoch = subscriptions[s].expiryEpoch + 1 =>
              ~checkAccess(s, consumer, fails, epochThrows)

\* A subscribe of B with S1 has been granted in epoch 1, the expiry epoch
C27_Witness ==
  /\ done.kind = "subscribe"
  /\ done.req.granted
  /\ done.req.consumerAddress = "B"
  /\ epoch = 1
  /\ subscriptions["S1"].expiryEpoch = 1

\* The readings stored so far, newest first: the k-th stored has blob id k
StoredReadings == [i \in 1..sensor.stored |-> [blobId |-> sensor.stored - i + 1]]

\* C26: the readings list holds at most 100 readings, newest first, and is
\* the most recent of the readings uploaded; the readings endpoint answers
\* with the 50 newest of them at most, the latest endpoint with the newest
C26_ReadingsAreMostRecent ==
  /\ Len(sensor.readings) <= 100
  /\ \A i, j \in 1..Len(sensor.readings) :
       i < j => sensor.readings[i].blobId > sensor.readings[j].blobId
  /\ sensor.readings =
       SubSeq(StoredReadings, 1, IF sensor.stored < 100 THEN sensor.stored ELSE 100)
  /\ sensor.res.kind = "readings" =>
       /\ Len(sensor.res.data) <= 50
       /\ sensor.res.data =
            SubSeq(StoredReadings, 1, IF sensor.stored < 50 THEN sensor.stored ELSE 50)
  /\ sensor.res.kind = "latest" =>
       sensor.res.data = IF sensor.stored = 0 THEN <<>> ELSE <<[blobId |-> sensor.stored]>>

\* More than 100 readings have been stored and the readings endpoint is
\* answering
C26_Witness ==
  /\ sensor.stored > 100
  /\ sensor.res.kind = "readings"
  /\ Len(sensor.res.data) = 50

\* The decryptData call that is waiting for client c, as it answers when
\* the outside does env
PendingDecrypt(c, env) ==
  decryptData(bc.blob, bc.feedId, bc.args[c].subscriptionId, bc.args[c].sessionKey,
              bc.args[c].consumerAddress, env)

\* C31: a decryptData call made with an expired session key fails without
\* calling fetchKeys, whatever the key servers would answer, and with the
\* expired outcome once the ciphertext has been parsed
C31_ExpiredBeforeFetch ==
  \A c \in Conns, env \in DecryptEnvs :
    ( /\ bc.pc = "decrypt"
      /\ bc.st[c] = "decrypting"
      /\ SessionKeyExpired(bc.args[c].sessionKey) ) =>
      /\ ~PendingDecrypt(c, env).ok
      /\ ~PendingDecrypt(c, env).fetched
      /\ (sealConfigured /\ env.parseOk) => PendingDecrypt(c, env).message = ErrExpired

\* decryptData has answered a client whose session key had run out
C31_Witness ==
  /\ done.kind = "broadcast"
  /\ \E c \in Conns : done.bc.failure[c] = ErrExpired /\ done.bc.target[c]
  /\ now > TTL_MIN

\* C32: a client is sent the plaintext of a premium feed only if the address
\* of the session key that decryptData was given is the consumer address the
\* connection is bound with when the plaintext is sent; a call whose session
\* key belongs to another address fails before fetchKeys and the client is
\* sent the ciphertext
C32_PlaintextOnlyToKeyHolder ==
  [][\A c \in Conns :
       ( /\ bc.pc = "decrypt"
         /\ bc.st[c] = "decrypting"
         /\ AfterStep.st[c] = "none" ) =>
         /\ AfterStep.decrypted[c] =>
              SessionKeyAddress[bc.args[c].sessionKey] = conns[c].consumerAddress
         /\ SessionKeyAddress[bc.args[c].sessionKey] # bc.args[c].consumerAddress =>
              /\ ~AfterStep.decrypted[c]
              /\ AfterStep.failure[c] \in {ErrNotConfigured, ErrLibrary, ErrExpired, ErrMismatch}
              /\ AfterStep.sent[c] = Append(bc.sent[c], EncryptedDataMsg(bc.feedId, bc.blob))]_vars

\* C33: getDataFeed and getSubscription make at most maxRetries + 1 getObject
\* requests and never throw; a request that is answered ends the call at
\* once, with null when the answer has no content; the call returns null
\* when every request has thrown; and every call returns
C33_ReadAttemptsBounded ==
  /\ [](/\ read.requests <= maxRetries + 1
        /\ read.pc \in {"idle", "request", "delay", "returned"}
        /\ read.pc = "returned" =>
             \/ read.thrown = read.requests /\ read.requests = maxRetries + 1
                                           /\ read.result = Null
             \/ read.thrown = read.requests - 1)
  /\ [][(read.pc = "request" /\ read'.pc = "returned") =>
          /\ read'.result = IF read.kind = "feed"
                              THEN getDataFeed(read.id, read'.thrown)
                              ELSE getSubscription(read.id, read'.thrown)
          /\ (read'.thrown = read.thrown /\ ObjectFields(read.kind, read.id) = Null) =>
               read'.result = Null]_vars
  /\ (read.pc = "request") ~> (read.pc = "returned")

C33_Witness ==
  /\ read.pc = "returned"
  /\ read.requests = maxRetries + 1
  /\ read.thrown = maxRetries + 1
  /\ read.result = Null

\* C34: uploadData called with encrypt = true never uploads plaintext: when
\* the feed id is missing, Seal is not configured or encryptData throws, it
\* throws and makes no request to the blob store; otherwise the bytes it
\* sends are the Seal ciphertext, and a blob stored by such a call is sealed
C34_EncryptNeverUploadsPlain ==
  /\ \A feedId \in Feeds \cup {None}, sealOk \in BOOLEAN, uploadOk \in BOOLEAN :
       /\ uploadBytes(TRUE, feedId, sealOk) \in {"none", "sealed"}
       /\ (feedId = None \/ ~sealConfigured \/ ~sealOk) =>
            /\ uploadBytes(TRUE, feedId, sealOk) = "none"
            /\ uploadData(TRUE, feedId, sealOk, uploadOk) = "throw"
       /\ (feedId # None /\ sealConfigured /\ sealOk) =>
            /\ uploadBytes(TRUE, feedId, sealOk) = "sealed"
            /\ uploadData(TRUE, feedId, sealOk, uploadOk) \in {"sealed", "throw"}
  /\ (ingest.pc = "broadcast" /\ ingest.encrypt) => blobs[ingest.reading].sealed

C34_Witness ==
  /\ ingest.pc = "broadcast"
  /\ ingest.encrypt
  /\ blobs[ingest.reading].sealed

\* C35: the session key a connection holds was supplied in, or retrieved
\* from the store for, the subscribe request that set its current binding:
\* when a request that carries no session key and resolves no API key is
\* granted and binds the connection, the connection holds no session key
C35_SessionKeyOfCurrentBinding ==
  [][\A r \in DOMAIN reqs :
       ( /\ reqs[r].pc = "auth"
         /\ reqs[r].sessionKey = None
         /\ reqs'[r].pc = "initFeed"
         /\ reqs'[r].granted
         /\ reqs'[r].apiKeyId = None ) =>
         conns'[reqs[r].conn].sessionKey = None]_vars

\* C36: a connection whose unsubscribe message has been processed, and from
\* which no subscribe message has arrived since, is not bound to a feed,
\* even when a subscribe message that arrived before the unsubscribe was
\* still awaiting its access check when the unsubscribe was processed
C36_UnsubscribedStaysUnbound ==
  \A c \in Conns : (conns[c].status = "open" /\ conns[c].silent) => conns[c].feedId = None

\* C37: a connection is sent the 'subscribed' acknowledgement of a granted
\* subscribe to a feed before any data message for that feed caused by the
\* binding: a broadcast sends no data message to a connection that a request
\* still short of its acknowledgement has bound to the feed
C37_AckBeforeData ==
  [][\A c \in Conns :
       Len(AfterStep.sent[c]) > Len(bc.sent[c]) =>
         ~\E r \in DOMAIN reqs :
            /\ reqs[r].conn = c
            /\ reqs[r].pc \in {"getStored", "checkStored", "store"}
            /\ reqs[r].granted
            /\ reqs[r].feedId = AfterStep.feedId
            /\ reqs[r].oldFeed # reqs[r].feedId]_vars

\* C38: a bound connection that has an apiKeyId was authorised through that
\* API key: its subscriptionId and consumerAddress are those of the key
C38_ApiKeyIdOfAuthorisingKey ==
  \A c \in Conns :
    (conns[c].feedId # None /\ conns[c].apiKeyId # None) =>
      /\ conns[c].subscriptionId = ApiKeyRows[conns[c].apiKeyId].subscriptionId
      /\ conns[c].consumerAddress = ApiKeyRows[conns[c].apiKeyId].consumerAddress

\* C39: the expiry recorded in the store for a session key is never later
\* than the session key's own expiry, its creation time plus its TTL, so an
\* entry that is live does not hold an expired session key
C39_StoreExpiryWithinKeyExpiry ==
  \A k \in DOMAIN sessionStore :
    sessionStore[k] # NoEntry =>
      /\ sessionStore[k].expiresAt <= SessionKeyCreatedAt[sessionStore[k].sessionKey] + TTL_MIN
      /\ EntryLive(sessionStore[k]) => ~SessionKeyExpired(sessionStore[k].sessionKey)

\* C40: after disconnect() has run, and until the component calls connect()
\* again, no reconnect timer is pending and no new WebSocket is opened; the
\* close event of a socket closed by disconnect() sets no reconnect timer
C40_DisconnectStopsReconnect ==
  /\ [](hook.disconnected => hook.timers = {})
  /\ [][ /\ (hook.disconnected /\ hook'.disconnected) => hook'.opened = hook.opened
         /\ \A s \in 1..MaxSockets :
              (hook.sockets[s].readyState = "closing" /\ hook'.sockets[s].readyState = "closed")
                => hook'.timers = hook.timers ]_vars
====
